---- MODULE Spec2Model ----
(***************************************************************************)
(* The weighted upstream sampling pool of @potentia/model                  *)
(* (src/upstream-pool.js, src/src/upstream.ts): one Pool reached through   *)
(* the UpstreamPool registry, its refresh (#sync), the hint filter, the    *)
(* weighted draw, the rate-limit sleep and the succeed / fail feedback.    *)
(*                                                                         *)
(* Time is in milliseconds, as Date.now() returns it.  An upstream's       *)
(* `interval` field is held in thousandths of a second, so the code's      *)
(* `interval * 1000` is the field's value; `ttl` is held in seconds and    *)
(* multiplied as the code does.  Weights are held in multiples of          *)
(* 1 / WeightUnit so that every decayed weight the model reaches is an     *)
(* exact integer.                                                          *)
(***************************************************************************)
EXTENDS Integers, Sequences, FiniteSets, TLC

\* ---------------------------------------------------------------- bounds
MaxFeedbacks == 1    \* succeed / fail calls in one behaviour
MaxTicks == 1        \* clock advances in one behaviour
SeqFeedbacks == 1    \* the same, when the sample calls do not overlap
SeqTicks == 1
FbFeedbacks == 3     \* the same, when feedback is what is explored
FbTicks == 1
RegFeedbacks == 2    \* the same, when the registry holds two groups
RegTicks == 1
ParFeedbacks == 1    \* the same, when a sleeping call is what is explored
ParTicks == 1
CfgFeedbacks == 1    \* the same, when the options are what is explored
CfgTicks == 1
DrawFeedbacks == 1   \* the same, when the weighted draw is what is explored
DrawTicks == 1
WeightFeedbacks == 1 \* the same, when a reloaded static weight is what is explored
WeightTicks == 1
DropFeedbacks == 2   \* the same, when an upstream that a refresh leaves out is what is explored
DropTicks == 2
FloorFeedbacks == 2  \* the same, when pools that differ in minWeight are what is explored
FloorTicks == 1
KeysFeedbacks == 2   \* the same, when feedback about two upstreams is what is explored
KeysTicks == 1
LiveTicks == 1       \* the same, when calls that are made once and run to their end are what is explored
ModelCalls == 2      \* the calls on a Models that write, before one that reads
ModelTicks == 1      \* the clock advances between them

\* ------------------------------------------------------------- universe
Tasks == {1, 2}
Ids == {1, 2}
TimeSteps == {500, 1000}
\* Date.now() when the pool is constructed: later than any interval, as the
\* milliseconds since 1970 are
Epoch == 1000

RECURSIVE Pow(_, _)
Pow(b, n) == IF n = 0 THEN 1 ELSE b * Pow(b, n - 1)

\* options.decay as a fraction (0 < DecayNum / DecayDen < 1)
DecayNum == 1
DecayDen == 2
Intervals == {500}
\* a bare id, the other arm of UpstreamOrId
IdArgs == [isUpstream : {FALSE}, value : Ids]

NoHint == [type |-> "none"]
HintIds == {1}
Hints == {NoHint} \cup [type : {"same", "diff"}, upstream : [isUpstream : {FALSE}, value : HintIds]]


\* an option that is not given is <<>>, one that is given is <<value>>
Nil == <<>>
\* `x ?? d`
OrElse(x, d) == IF x = Nil THEN d ELSE x[1]

\* the groups (Upstream.type) of the registry: the one whose Pool is followed
\* step by step, and another one
Types == {"main", "other"}

\* the options a pool is constructed with, as init(type) gives them: ttl in
\* seconds, minWeight in hundredths, decay as a fraction
Configs == [ttl : {<<1>>}, minFailures : {<<2>>}, minWeight : {Nil},
            decay : {<<[num |-> DecayNum, den |-> DecayDen]>>}]

\* the same with the default minFailures: every fail decays
Eager == {[c EXCEPT !.minFailures = Nil] : c \in Configs}

\* the default ttl and minFailures, with the default minWeight (0.01) or 0.5
Floors == {[c EXCEPT !.ttl = Nil, !.minFailures = Nil, !.minWeight = m] :
               c \in Configs, m \in {Nil, <<50>>}}

\* the default ttl, with minFailures 0 or 1
Thresholds == {[c EXCEPT !.ttl = Nil, !.minFailures = m] :
                   c \in Configs, m \in {<<0>>, <<1>>}}

\* the same with the default ttl: the cache outlives the explored clock
LongLived == {[c EXCEPT !.ttl = Nil] : c \in Configs}

\* options given or not, valid or not, on either side of each bound of the
\* constructor's assertion
AnyConfigs ==
    [ttl : {Nil, <<0>>, <<1>>},
     minFailures : {Nil, <<-1>>},
     minWeight : {Nil, <<-1>>, <<0>>},
     decay : {Nil, <<[num |-> 0, den |-> 1]>>, <<[num |-> DecayNum, den |-> DecayDen]>>,
              <<[num |-> 1, den |-> 1]>>}]

\* `ttl: options.ttl ?? 60, minFailures: options.minFailures ?? 0,
\*  minWeight: options.minWeight ?? 0.01, decay: options.decay ?? 0.8`
WithDefaults(c) ==
    [ttl |-> OrElse(c.ttl, 60),
     minFailures |-> OrElse(c.minFailures, 0),
     minWeight |-> OrElse(c.minWeight, 1),
     decay |-> OrElse(c.decay, [num |-> 4, den |-> 5])]

\* an assertion that would let ttl = 0 and decay = 1 through
ValidLoose(o) ==
    /\ o.ttl >= 0
    /\ o.minFailures >= 0
    /\ o.minWeight >= 0
    /\ o.decay.num > 0
    /\ o.decay.num <= o.decay.den

\* the constructor's assertion
Valid(o) ==
    /\ o.ttl >= 1
    /\ o.minFailures >= 0
    /\ o.minWeight >= 0
    /\ o.decay.num > 0
    /\ o.decay.num < o.decay.den

VARIABLES
    registered,   \* UpstreamPool.#pools holds the group's Pool
    built,        \* history: the Pools constructed for the group
    other,        \* the Pool of another group, as far as feedback reaches it
    config,       \* the options the Pool is constructed with (init(type))
    options,      \* Pool.#options
    caches,       \* Pool.#caches
    failures,     \* Pool.#failures
    times,        \* Pool.#times
    weights,      \* Pool.#weights
    expiresAt,    \* Pool.#expiresAt
    clock,        \* Date.now()
    pc,           \* position of each sample call
    hint,         \* the call's hint argument
    now,          \* #sync's local `now`
    sel,          \* the call's selected upstream (<<>> when none)
    wake,         \* the time the call's msleep is due
    err,          \* the error the call ended with
    fb,           \* the succeed / fail call made by the last step
    limits,       \* what is explored: the numbers of feedback calls, of clock advances and
                  \* of calls in flight, the static weights, the ids feedback names,
                  \* the length and the ids of the loaded lists, the kinds of hint,
                  \* the groups, the options, the clock steps, the
                  \* histories kept of each call
    fbs,          \* history: the number of succeed / fail calls made
    ticks,        \* history: the number of clock advances made
    loads,        \* history: the latest loader invocation
    decayed,      \* history: the keys fail has decayed since their last succeed
    call,         \* history: what each sample call found when it was invoked
    dropped,      \* history: the decayed keys a refresh left out, with their weights
    docs,         \* the documents of the collection a Models reads and writes
    res,          \* the outcome of the Models call made by the last step
    held,         \* the first model a Models call returned to the caller
    calls,        \* history: the number of Models calls made, past ModelCalls after a read
    lastRet       \* history: what the last finished sample call returned

vars == <<registered, built, other, config, options, caches, failures, times,
          weights, expiresAt, clock, pc, hint, now, sel, wake, err, fb, limits,
          fbs, ticks, loads, decayed, call, dropped, lastRet, docs, res, held, calls>>

poolVars == <<caches, failures, times, weights, expiresAt>>
taskVars == <<pc, hint, now, sel, wake, err, call>>
modelsVars == <<docs, res, held, calls>>

\* ----------------------------------------------------------------- maps
EmptyMap == [k \in {} |-> 0]
Has(m, k) == k \in DOMAIN m
Get(m, k, d) == IF k \in DOMAIN m THEN m[k] ELSE d
Set(m, k, v) == [x \in DOMAIN m \cup {k} |-> IF x = k THEN v ELSE m[x]]
DeleteAll(m, ks) == [x \in DOMAIN m \ ks |-> m[x]]

Range(s) == {s[i] : i \in 1..Len(s)}

pickId(x) == IF x.isUpstream THEN x.id ELSE x.value

Key(x) == ToString(pickId(x))

Keys == {ToString(i) : i \in Ids}
CacheKeys(cache) == {Key(x) : x \in Range(cache)}

failure(key) == Get(failures, key, 0)
time(key) == Get(times, key, 0)
weight(key, w) == Get(weights, key, w)

\* weights are held in multiples of 1 / WeightUnit: a weight can be decayed
\* once per fail call and stay an integer
WeightUnit == Pow(options.decay.den, limits.fbs)

\* the Upstream objects (the fields the pool reads) of the explored weights
Upstreams ==
    [isUpstream : {TRUE}, id : Ids, weight : {w * WeightUnit : w \in limits.weights},
     interval : Intervals]
\* the arguments of the explored succeed / fail calls
FeedbackUpstreams == {u \in Upstreams : u.id \in limits.ids}
FeedbackArgs == FeedbackUpstreams \cup {a \in IdArgs : a.value \in limits.ids}

\* what a loader can return: lists of upstreams with distinct ids
Snapshots ==
    {<<>>} \cup {<<u>> : u \in Upstreams}
           \cup {p \in Upstreams \X Upstreams : p[1].id # p[2].id}

\* the lists and the hints that a behaviour explores
Loaded ==
    {x \in Snapshots : /\ Len(x) <= limits.len
                       /\ \A i \in 1..Len(x) : x[i].id \in limits.loaded}
Hinted == {h \in Hints : h.type \in limits.hints}

NoFb == [op |-> "none"]
NoRet == [id |-> 0, at |-> 0]
NoLoad == [at |-> 0, st |-> "none", solo |-> FALSE, after |-> "none"]
\* no Models call made
NoRes == [op |-> "none"]
\* no call in progress
NoCall == [seen |-> 0, sleepers |-> {}]
\* the other group's Pool before it is constructed
NoPool == [registered |-> FALSE, built |-> 0, failures |-> EmptyMap, weights |-> EmptyMap]

InitWith(lim) ==
    /\ limits = lim
    /\ registered = FALSE
    /\ built = 0
    /\ other = NoPool
    /\ config \in lim.configs
    /\ options = WithDefaults(config)
    /\ decayed = {}
    /\ call = [t \in Tasks |-> NoCall]
    /\ dropped = EmptyMap
    /\ docs = <<>>
    /\ res = NoRes
    /\ held = <<>>
    /\ calls = 0
    /\ caches = <<>>
    /\ failures = EmptyMap
    /\ times = EmptyMap
    /\ weights = EmptyMap
    /\ expiresAt = 0
    /\ clock = Epoch
    /\ pc = [t \in Tasks |-> "idle"]
    /\ hint = [t \in Tasks |-> NoHint]
    /\ now = [t \in Tasks |-> 0]
    /\ sel = [t \in Tasks |-> <<>>]
    /\ wake = [t \in Tasks |-> 0]
    /\ err = [t \in Tasks |-> "none"]
    /\ fb = NoFb
    /\ fbs = 0
    /\ ticks = 0
    /\ loads = NoLoad
    /\ lastRet = NoRet

\* ------------------------------------------------------------- Pool.#sync
\* a test that would still take the cache for fresh at its expiry
FreshInclusive(n) == expiresAt >= n

\* a test that would not take an empty cache for fresh
FreshNonEmpty(n) == expiresAt > n /\ caches # <<>>

\* `this.#expiresAt > now`: the cache is still fresh
Fresh(n) == expiresAt > n

\* a purge that would drop the entries of every key of the old cache
PurgeOld(m, old, loaded) == DeleteAll(m, CacheKeys(old))

\* the loop "remove upstreams": entries of the old cache's keys that the
\* loaded list does not have are deleted from a map
Purge(m, old, loaded) == DeleteAll(m, CacheKeys(old) \ CacheKeys(loaded))

\* an expiry stamp that would grant no ttl
ExpiryNow(n) == n

\* `now + this.#options.ttl * 1000`
Expiry(n) == n + options.ttl * 1000

\* `loads` keeps the latest loader invocation: when it was made, how it
\* ended ("pending" until then), and whether its sample call ran from its
\* start to the end of the load with no other sample call in flight (solo),
\* and whether the invocation before it was such a one and succeeded (after)
Alone(t) == \A s \in Tasks \ {t} : pc[s] \in {"idle", "done"}
Invoked(t) ==
    [at |-> clock, st |-> "pending", solo |-> Alone(t),
     after |-> IF loads.st = "ok" /\ loads.solo THEN "solo" ELSE "other"]
Overlapped == IF loads.st = "pending" THEN [loads EXCEPT !.solo = FALSE] ELSE loads
Ended(t, st) == IF loads.at = now[t] /\ loads.st = "pending"
                  THEN [loads EXCEPT !.st = st] ELSE loads

\* the expiry a call finds and the calls it finds asleep, where they are
\* watched
Found ==
    [seen |-> IF "expiry" \in limits.watch THEN expiresAt ELSE 0,
     sleepers |-> IF "sleepers" \in limits.watch
                    THEN {s \in Tasks : pc[s] = "sleep"} ELSE {}]

\* a registry that would never find a registered pool
PoolOfNone(g) == <<>>

\* a registry that would hold one pool for all groups
PoolOfAny(g) == IF registered THEN <<"main">> ELSE <<>>

\* `this.#pools.get(type)`: the group's pool, <<>> when there is none
PoolOf(g) ==
    IF g = "main" THEN (IF registered THEN <<"main">> ELSE <<>>)
                  ELSE (IF other.registered THEN <<"other">> ELSE <<>>)

\* UpstreamPool.sample: #pool constructs and registers the group's Pool when
\* the lookup finds none (the constructor's assertion fails on options that
\* are not valid, and then nothing is registered), with no suspension in
\* between; then Pool.sample runs #sync up to its first suspension: it
\* returns when the cache is fresh and calls the loader otherwise.
SampleStart(t) ==
    /\ pc[t] = "idle"
    /\ \A s \in Tasks : s < t => pc[s] # "idle"
    /\ Cardinality({s \in Tasks : pc[s] # "idle"}) < limits.width
    /\ IF PoolOf("main") = <<>> /\ ~Valid(options)
         THEN /\ pc' = [pc EXCEPT ![t] = "done"]
              /\ err' = [err EXCEPT ![t] = "AssertionError"]
              /\ lastRet' = NoRet
              /\ UNCHANGED <<registered, built, now, loads>>
         ELSE /\ registered' = TRUE
              /\ built' = IF PoolOf("main") = <<>> THEN built + 1 ELSE built
              /\ IF Fresh(clock)
                   THEN /\ pc' = [pc EXCEPT ![t] = "synced"]
                        /\ now' = now
                        /\ loads' = Overlapped
                   ELSE /\ pc' = [pc EXCEPT ![t] = "load"]
                        /\ now' = [now EXCEPT ![t] = clock]
                        /\ loads' = Invoked(t)
              /\ UNCHANGED <<err, lastRet>>
    /\ call' = [call EXCEPT ![t] = Found]
    /\ fb' = NoFb
    /\ UNCHANGED <<options, poolVars, clock, hint, sel, wake, limits, modelsVars, dropped, config,
                   other, decayed, fbs, ticks>>

\* UpstreamPool.sample for the other group: #pool constructs and registers
\* its Pool when the lookup finds none; the call's load stays pending
SampleOther ==
    /\ other' = IF PoolOf("other") = <<>> /\ Valid(options)
                  THEN [other EXCEPT !.registered = TRUE, !.built = @ + 1]
                  ELSE other
    /\ fb' = NoFb
    /\ UNCHANGED <<registered, options, poolVars, clock, taskVars, limits, modelsVars, dropped, config,
                   built, decayed, fbs, ticks, loads, lastRet>>

\* UpstreamPool.sample(type, hint) called by task t
UpstreamPoolSample(t, g) == IF g = "main" THEN SampleStart(t) ELSE SampleOther


\* the keys that refreshes have left out while fail had them decayed, with
\* the weight each had when it was left out, where they are watched; a key
\* leaves when a refresh loads it again
Dropped(upstreams) ==
    IF "dropped" \in limits.watch
      THEN LET out == {k \in CacheKeys(caches) \ CacheKeys(upstreams) : k \in decayed}
           IN  [k \in (DOMAIN dropped \cup out) \ CacheKeys(upstreams) |->
                  IF k \in out THEN weights[k] ELSE dropped[k]]
      ELSE dropped

\* a refresh that would replace the cache and leave the expiry for later
SyncCommitUnstamped(t, upstreams) ==
    /\ pc[t] = "load"
    /\ times' = Purge(times, caches, upstreams)
    /\ failures' = Purge(failures, caches, upstreams)
    /\ caches' = upstreams
    /\ expiresAt' = expiresAt
    /\ pc' = [pc EXCEPT ![t] = "synced"]
    /\ now' = [now EXCEPT ![t] = 0]
    /\ loads' = Ended(t, "ok")
    /\ dropped' = Dropped(upstreams)
    /\ fb' = NoFb
    /\ UNCHANGED <<registered, options, weights, clock, hint, sel, wake, err,
                   limits, modelsVars, config, built, other, decayed, call, fbs, ticks, lastRet>>

\* the loader resolved with the list `upstreams`: stale entries are purged,
\* the cache is replaced and the expiry is stamped from the `now` read
\* before the load
SyncCommit(t, upstreams) ==
    /\ pc[t] = "load"
    /\ times' = Purge(times, caches, upstreams)
    /\ failures' = Purge(failures, caches, upstreams)
    /\ caches' = upstreams
    /\ expiresAt' = Expiry(now[t])
    /\ pc' = [pc EXCEPT ![t] = "synced"]
    /\ now' = [now EXCEPT ![t] = 0]
    /\ loads' = Ended(t, "ok")
    /\ dropped' = Dropped(upstreams)
    /\ fb' = NoFb
    /\ UNCHANGED <<registered, options, weights, clock, hint, sel, wake, err,
                   limits, modelsVars, config, built, other, decayed, call, fbs, ticks, lastRet>>

\* a failed load that would stamp the expiry all the same
LoadFailStamped(t) ==
    /\ pc[t] = "load"
    /\ pc' = [pc EXCEPT ![t] = "done"]
    /\ err' = [err EXCEPT ![t] = "LoadError"]
    /\ expiresAt' = Expiry(now[t])
    /\ now' = [now EXCEPT ![t] = 0]
    /\ loads' = Ended(t, "err")
    /\ lastRet' = NoRet
    /\ fb' = NoFb
    /\ UNCHANGED <<registered, options, caches, failures, times, weights, clock,
                   hint, sel, wake, limits, modelsVars, dropped, config, built, other, decayed, call, fbs, ticks>>

\* the loader rejected: the error leaves sample, nothing is written
LoadFail(t) ==
    /\ pc[t] = "load"
    /\ pc' = [pc EXCEPT ![t] = "done"]
    /\ err' = [err EXCEPT ![t] = "LoadError"]
    /\ now' = [now EXCEPT ![t] = 0]
    /\ loads' = Ended(t, "err")
    /\ lastRet' = NoRet
    /\ fb' = NoFb
    /\ UNCHANGED <<registered, options, poolVars, clock, hint, sel, wake,
                   limits, modelsVars, dropped, config, built, other, decayed, call, fbs, ticks>>

\* ------------------------------------------------------------ Pool.sample
pickIdOrNil(h) == IF h.type = "none" THEN <<>> ELSE <<pickId(h.upstream)>>

\* `id?.equals(x.id)`
Eq(id, x) == id # <<>> /\ id[1] = x.id

\* the predicate of `this.#caches.filter(...)`
Keep(h, x) ==
    \/ h.type = "none"
    \/ h.type = "diff" /\ ~Eq(pickIdOrNil(h), x)
    \/ h.type = "same" /\ Eq(pickIdOrNil(h), x)

\* a candidate list that would ignore the hint
CandidatesAll(cache, h) == cache

\* a candidate list that would not fall back to the whole cache
CandidatesFiltered(cache, h) == SelectSeq(cache, LAMBDA x : Keep(h, x))

\* a candidate list that would hold a built-in upstream when the cache is
\* empty
CandidatesDefault(cache, h) ==
    LET filtered == SelectSeq(cache, LAMBDA x : Keep(h, x))
    IN  IF cache = <<>> THEN <<CHOOSE u \in Upstreams : u.id = 1>>
        ELSE IF h.type = "none" \/ Len(filtered) > 0 THEN filtered ELSE cache

\* "collect the candidates": the filtered cache, or the whole cache when a
\* hint filters everything out
Candidates(cache, h) ==
    LET filtered == SelectSeq(cache, LAMBDA x : Keep(h, x))
    IN  IF h.type = "none" \/ Len(filtered) > 0 THEN filtered ELSE cache

RECURSIVE SumFrom(_, _)
SumFrom(cands, i) ==
    IF i > Len(cands) THEN 0
    ELSE weight(Key(cands[i]), cands[i].weight) + SumFrom(cands, i + 1)

\* `candidates.reduce((s, x) => s + this.#weight(...), 0)`
Sum(cands) == SumFrom(cands, 1)

\* `Math.random() * sum` lies in [0, sum).  The draw compares it with sums
\* of weights only, which are integers here, so the value k stands for the
\* reals of (k - 1, k] that lie in [0, sum).
Rands(sum) == 0..sum

\* the loop `for (const x of candidates) if ((rand -= w) <= 0) return x`,
\* <<>> when it runs off the end
RECURSIVE Walk(_, _, _)
\* a loop that would test `(rand -= w) < 0`
WalkStrict(cands, i, rand) ==
    IF i > Len(cands) THEN <<>>
    ELSE LET rest == rand - weight(Key(cands[i]), cands[i].weight)
         IN  IF rest < 0 THEN <<cands[i]>> ELSE Walk(cands, i + 1, rest)

\* a loop that would pass over the candidates of weight 0
WalkSkipZero(cands, i, rand) ==
    IF i > Len(cands) THEN <<>>
    ELSE LET w == weight(Key(cands[i]), cands[i].weight)
             rest == rand - w
         IN  IF w > 0 /\ rest <= 0 THEN <<cands[i]>> ELSE Walk(cands, i + 1, rest)

\* a loop that would subtract the static weights
WalkStatic(cands, i, rand) ==
    IF i > Len(cands) THEN <<>>
    ELSE LET rest == rand - cands[i].weight
         IN  IF rest <= 0 THEN <<cands[i]>> ELSE Walk(cands, i + 1, rest)

\* a loop that would walk the candidates from the last to the first
WalkBackwards(cands, i, rand) ==
    IF i > Len(cands) THEN <<>>
    ELSE LET x == cands[Len(cands) + 1 - i]
             rest == rand - weight(Key(x), x.weight)
         IN  IF rest <= 0 THEN <<x>> ELSE Walk(cands, i + 1, rest)

\* a loop that would test the remainder before it subtracts the weight
WalkLate(cands, i, rand) ==
    IF i > Len(cands) THEN <<>>
    ELSE IF rand <= 0 THEN <<cands[i]>>
    ELSE Walk(cands, i + 1, rand - weight(Key(cands[i]), cands[i].weight))

Walk(cands, i, rand) ==
    IF i > Len(cands) THEN <<>>
    ELSE LET rest == rand - weight(Key(cands[i]), cands[i].weight)
         IN  IF rest <= 0 THEN <<cands[i]>> ELSE Walk(cands, i + 1, rest)

\* a wait that would never be due
DurationNone(u) == 0

\* a wait that would count the interval twice
DurationDouble(u) == time(Key(u)) + 2 * u.interval - clock

\* `this.#time(key) + upstream.interval * 1000 - Date.now()`
Duration(u) == time(Key(u)) + u.interval - clock

\* a draw that would wait for the calls that are asleep
DrawBlocking(t, h, rand) ==
    /\ \A s \in Tasks \ {t} : pc[s] # "sleep"
    /\ pc[t] = "synced"
    /\ hint' = [hint EXCEPT ![t] = h]
    /\ LET candidates == Candidates(caches, h)
           picked == Walk(candidates, 1, rand)
       IN  /\ rand \in Rands(Sum(candidates))
           /\ IF Len(candidates) = 0 \/ picked = <<>>
                THEN /\ pc' = [pc EXCEPT ![t] = "done"]
                     /\ err' = [err EXCEPT ![t] = "NoUpstreamError"]
                     /\ lastRet' = NoRet
                     /\ UNCHANGED <<sel, wake, times>>
                ELSE /\ sel' = [sel EXCEPT ![t] = picked]
                     /\ err' = err
                     /\ IF Duration(picked[1]) > 0
                          THEN /\ pc' = [pc EXCEPT ![t] = "sleep"]
                               /\ wake' = [wake EXCEPT ![t] = clock + Duration(picked[1])]
                               /\ UNCHANGED <<times, lastRet>>
                          ELSE /\ pc' = [pc EXCEPT ![t] = "done"]
                               /\ times' = Set(times, Key(picked[1]), clock)
                               /\ lastRet' = [id |-> picked[1].id, at |-> clock]
                               /\ wake' = wake
    /\ fb' = NoFb
    /\ UNCHANGED <<registered, options, caches, failures, weights, expiresAt,
                   clock, now, limits, modelsVars, dropped, config, built, other, decayed, call, fbs, ticks, loads>>

\* after `await this.#sync()`: candidates, weighted draw, and either the
\* start of the rate-limit sleep or the immediate return.  The call's hint
\* argument is first read here, so it is drawn here.
Draw(t, h, rand) ==
    /\ pc[t] = "synced"
    /\ hint' = [hint EXCEPT ![t] = h]
    /\ LET candidates == Candidates(caches, h)
           picked == Walk(candidates, 1, rand)
       IN  /\ rand \in Rands(Sum(candidates))
           /\ IF Len(candidates) = 0 \/ picked = <<>>
                THEN /\ pc' = [pc EXCEPT ![t] = "done"]
                     /\ err' = [err EXCEPT ![t] = "NoUpstreamError"]
                     /\ lastRet' = NoRet
                     /\ UNCHANGED <<sel, wake, times>>
                ELSE /\ sel' = [sel EXCEPT ![t] = picked]
                     /\ err' = err
                     /\ IF Duration(picked[1]) > 0
                          THEN /\ pc' = [pc EXCEPT ![t] = "sleep"]
                               /\ wake' = [wake EXCEPT ![t] = clock + Duration(picked[1])]
                               /\ UNCHANGED <<times, lastRet>>
                          ELSE /\ pc' = [pc EXCEPT ![t] = "done"]
                               /\ times' = Set(times, Key(picked[1]), clock)
                               /\ lastRet' = [id |-> picked[1].id, at |-> clock]
                               /\ wake' = wake
    /\ fb' = NoFb
    /\ UNCHANGED <<registered, options, caches, failures, weights, expiresAt,
                   clock, now, limits, modelsVars, dropped, config, built, other, decayed, call, fbs, ticks, loads>>

\* msleep(ms) resolves no earlier than ms milliseconds after it was called
msleep(due) == clock >= due

\* a wake that would also expire the cache
WakeExpiring(t) ==
    /\ pc[t] = "sleep"
    /\ msleep(wake[t])
    /\ times' = Set(times, Key(sel[t][1]), clock)
    /\ expiresAt' = 0
    /\ lastRet' = [id |-> sel[t][1].id, at |-> clock]
    /\ pc' = [pc EXCEPT ![t] = "done"]
    /\ fb' = NoFb
    /\ UNCHANGED <<registered, options, caches, failures, weights,
                   clock, hint, now, sel, wake, err, limits, modelsVars, dropped, config, built, other, decayed,
                   call, fbs, ticks, loads>>

\* a wake that would store the sample time the wait was computed from
WakeStale(t) ==
    /\ pc[t] = "sleep"
    /\ msleep(wake[t])
    /\ times' = Set(times, Key(sel[t][1]), wake[t] - sel[t][1].interval)
    /\ lastRet' = [id |-> sel[t][1].id, at |-> clock]
    /\ pc' = [pc EXCEPT ![t] = "done"]
    /\ fb' = NoFb
    /\ UNCHANGED <<registered, options, caches, failures, weights, expiresAt,
                   clock, hint, now, sel, wake, err, limits, modelsVars, dropped, config, built, other, decayed,
                   call, fbs, ticks, loads>>

\* the sleep is over: `this.#times.set(key, Date.now())` and return
Wake(t) ==
    /\ pc[t] = "sleep"
    /\ msleep(wake[t])
    /\ times' = Set(times, Key(sel[t][1]), clock)
    /\ lastRet' = [id |-> sel[t][1].id, at |-> clock]
    /\ pc' = [pc EXCEPT ![t] = "done"]
    /\ fb' = NoFb
    /\ UNCHANGED <<registered, options, caches, failures, weights, expiresAt,
                   clock, hint, now, sel, wake, err, limits, modelsVars, dropped, config, built, other, decayed,
                   call, fbs, ticks, loads>>

\* the caller takes the call's outcome; the task can call again
Return(t) ==
    /\ pc[t] = "done"
    /\ pc' = [pc EXCEPT ![t] = "idle"]
    /\ hint' = [hint EXCEPT ![t] = NoHint]
    /\ now' = [now EXCEPT ![t] = 0]
    /\ sel' = [sel EXCEPT ![t] = <<>>]
    /\ wake' = [wake EXCEPT ![t] = 0]
    /\ err' = [err EXCEPT ![t] = "none"]
    /\ call' = [call EXCEPT ![t] = NoCall]
    /\ fb' = NoFb
    /\ UNCHANGED <<registered, options, poolVars, clock, limits, modelsVars, dropped, config, built, other, decayed, fbs, ticks, loads, lastRet>>

\* Date.now() moves on
Tick(d) ==
    /\ ticks < limits.ticks
    /\ ticks' = ticks + 1
    /\ clock' = clock + d
    /\ fb' = NoFb
    /\ UNCHANGED <<registered, options, poolVars, taskVars, limits, modelsVars, dropped, config, built, other, decayed, fbs, loads, lastRet>>

\* Date.now() moves on to the time the msleep of a call is due: time
\* passes while a timer is pending
Elapse(t) ==
    /\ pc[t] = "sleep"
    /\ clock < wake[t]
    /\ clock' = wake[t]
    /\ fb' = NoFb
    /\ UNCHANGED <<registered, options, poolVars, taskVars, limits, modelsVars, dropped, config,
                   built, other, decayed, fbs, ticks, loads, lastRet>>

\* ---------------------------------------------------- Pool.succeed / fail
\* `this.#caches.find((x) => x.id.equals(id))`, <<>> when there is none
RECURSIVE FindFrom(_, _, _)
FindFrom(cache, id, i) ==
    IF i > Len(cache) THEN <<>>
    ELSE IF cache[i].id = id THEN <<cache[i]>> ELSE FindFrom(cache, id, i + 1)

\* `id instanceof Upstream ? id : this.#caches.find(...)`
Resolve(arg) == IF arg.isUpstream THEN <<arg>> ELSE FindFrom(caches, arg.value, 1)

\* `weight * this.#options.decay`
Decay(w) == (w * options.decay.num) \div options.decay.den

\* a succeed that would forget the failures of every other key
SucceedFailuresOnly(u) == [k \in {Key(u)} |-> 0]
\* succeed's two writes
SucceedFailures(u) == Set(failures, Key(u), 0)
\* a succeed that would leave #weights alone
SucceedWeightsKept(u) == weights
SucceedWeights(u) == Set(weights, Key(u), u.weight)

\* fail's two writes
FailFailures(u) == Set(failures, Key(u), failure(Key(u)) + 1)
\* a fail that would not let the weight fall below minWeight
FailWeightsFloored(u) ==
    LET floor == (options.minWeight * WeightUnit) \div 100
        next == Decay(weight(Key(u), u.weight))
    IN  IF failure(Key(u)) + 1 >= options.minFailures
          THEN Set(weights, Key(u), IF next < floor THEN floor ELSE next)
          ELSE weights
\* a fail that would compare the count before it is incremented
FailWeightsAfter(u) ==
    IF failure(Key(u)) >= options.minFailures
      THEN Set(weights, Key(u), Decay(weight(Key(u), u.weight)))
      ELSE weights
\* a fail that would decay whatever the failure count
FailWeightsAlways(u) == Set(weights, Key(u), Decay(weight(Key(u), u.weight)))
FailWeights(u) ==
    IF failure(Key(u)) + 1 >= options.minFailures
      THEN Set(weights, Key(u), Decay(weight(Key(u), u.weight)))
      ELSE weights

\* what `fb` keeps of a feedback call: the operation, its route ("pool" when
\* it is made on the Pool, the group it names when it is made on the
\* registry), whether the group had a Pool, the key it names, whether that
\* key was in the cache, whether the argument was an id or an upstream of
\* the cache, the entries of #failures and #weights under the key before
\* the call (-1: none), and the error raised
Feedback(op, arg, via, e) ==
    [op |-> op, via |-> via, pool |-> registered, key |-> Key(arg),
     known |-> Key(arg) \in CacheKeys(caches),
     cached |-> IF arg.isUpstream THEN arg \in Range(caches)
                                 ELSE Key(arg) \in CacheKeys(caches),
     was |-> [failure |-> Get(failures, Key(arg), -1),
              weight |-> Get(weights, Key(arg), -1)],
     err |-> e]

\* the same of a call that names the other group, whose cache is empty
OtherFeedback(op, u) ==
    [op |-> op, via |-> "other", pool |-> other.registered,
     key |-> Key(u), known |-> FALSE, cached |-> FALSE,
     was |-> [failure |-> Get(other.failures, Key(u), -1),
              weight |-> Get(other.weights, Key(u), -1)],
     err |-> "none"]

\* the body of Pool.succeed: the assertion fails, and nothing is written,
\* when the argument resolves to no upstream
succeed(arg, via) ==
    LET upstream == Resolve(arg)
    IN  IF upstream = <<>>
          THEN /\ fb' = Feedback("succeed", arg, via, "AssertionError")
               /\ UNCHANGED <<failures, weights, decayed>>
          ELSE /\ fb' = Feedback("succeed", arg, via, "none")
               /\ failures' = SucceedFailures(upstream[1])
               /\ weights' = SucceedWeights(upstream[1])
               /\ decayed' = decayed \ {Key(upstream[1])}

\* the body of Pool.fail
fail(arg, via) ==
    LET upstream == Resolve(arg)
    IN  IF upstream = <<>>
          THEN /\ fb' = Feedback("fail", arg, via, "AssertionError")
               /\ UNCHANGED <<failures, weights, decayed>>
          ELSE /\ fb' = Feedback("fail", arg, via, "none")
               /\ failures' = FailFailures(upstream[1])
               /\ weights' = FailWeights(upstream[1])
               /\ decayed' = IF FailWeights(upstream[1]) = weights
                               THEN decayed ELSE decayed \cup {Key(upstream[1])}

\* Pool.succeed and Pool.fail of the other group's Pool, given an Upstream
OtherSucceed(u) ==
    [other EXCEPT !.failures = Set(@, Key(u), 0),
                  !.weights = Set(@, Key(u), u.weight)]
OtherFail(u) ==
    LET count == Get(other.failures, Key(u), 0) + 1
    IN  [other EXCEPT !.failures = Set(@, Key(u), count),
                      !.weights = IF count >= options.minFailures
                                    THEN Set(@, Key(u), Decay(Get(@, Key(u), u.weight)))
                                    ELSE @]

\* Pool.succeed called on the pool
Succeed(arg) ==
    /\ registered
    /\ succeed(arg, "pool")
    /\ fbs < limits.fbs
    /\ fbs' = fbs + 1
    /\ UNCHANGED <<registered, options, caches, times, expiresAt, clock, taskVars,
                   limits, modelsVars, dropped, config, built, other, ticks, loads, lastRet>>

\* Pool.fail called on the pool
Fail(arg) ==
    /\ registered
    /\ fail(arg, "pool")
    /\ fbs < limits.fbs
    /\ fbs' = fbs + 1
    /\ UNCHANGED <<registered, options, caches, times, expiresAt, clock, taskVars,
                   limits, modelsVars, dropped, config, built, other, ticks, loads, lastRet>>

\* UpstreamPool.succeed: `this.#pools.get(upstream.type)?.succeed(upstream)`,
\* g being upstream.type
UpstreamPoolSucceed(g, u) ==
    /\ IF PoolOf(g) = <<"main">>
         THEN succeed(u, g) /\ other' = other
         ELSE IF PoolOf(g) = <<"other">>
           THEN /\ other' = OtherSucceed(u)
                /\ fb' = OtherFeedback("succeed", u)
                /\ UNCHANGED <<failures, weights, decayed>>
           ELSE /\ fb' = IF g = "main" THEN Feedback("succeed", u, g, "none")
                                      ELSE OtherFeedback("succeed", u)
                /\ UNCHANGED <<failures, weights, decayed, other>>
    /\ fbs < limits.fbs
    /\ fbs' = fbs + 1
    /\ UNCHANGED <<registered, options, caches, times, expiresAt, clock, taskVars,
                   limits, modelsVars, dropped, config, built, ticks, loads, lastRet>>

\* UpstreamPool.fail: `this.#pools.get(upstream.type)?.fail(upstream)`
UpstreamPoolFail(g, u) ==
    /\ IF PoolOf(g) = <<"main">>
         THEN fail(u, g) /\ other' = other
         ELSE IF PoolOf(g) = <<"other">>
           THEN /\ other' = OtherFail(u)
                /\ fb' = OtherFeedback("fail", u)
                /\ UNCHANGED <<failures, weights, decayed>>
           ELSE /\ fb' = IF g = "main" THEN Feedback("fail", u, g, "none")
                                      ELSE OtherFeedback("fail", u)
                /\ UNCHANGED <<failures, weights, decayed, other>>
    /\ fbs < limits.fbs
    /\ fbs' = fbs + 1
    /\ UNCHANGED <<registered, options, caches, times, expiresAt, clock, taskVars,
                   limits, modelsVars, dropped, config, built, ticks, loads, lastRet>>

\* ------------------------------------------------------------------ Models
\* Models is abstract; the collection followed is the one of `Tests`:
\* documents {_id, foo, bar?, created_at, updated_at?} with a unique index
\* on foo.  A field that is not there is <<>>, one that is there is <<v>>.
\* The MongoDB driver and toUuid are not among the sources: the Store*
\* operators and toUuid are what their documentation says of them, on a
\* collection held in its natural (insertion) order.
GivenIds == {1}
Uuids == 2..6
Foos == {"a", "b"}
Bars == {7}

\* the `max` of paginate
max == 1000
\* offsets and limits are held in halves: 1 is 0.5, 2001 is 1000.5
Number(n) == 2 * n
isInteger(h) == h % 2 = 0
Whole(h) == h \div 2
\* `Math.min(a, b)`
min(a, b) == IF a < b THEN a ELSE b

\* the model objects and the raw ids, the two arms of ModelOrId
RawIds == [isModel : {FALSE}, value : GivenIds \cup Uuids]
isModelLike(x) == x.isModel
\* pickId on a ModelOrId
ModelId(x) == IF isModelLike(x) THEN x.id ELSE x.value

\* toUuid(): an id that no document and no call has used
toUuid(used) == CHOOSE i \in Uuids \ used : \A j \in Uuids \ used : i <= j

\* Tests.$model over Model's constructor
Tests_model(doc) ==
    [isModel |-> TRUE, id |-> doc._id, foo |-> doc.foo, bar |-> doc.bar,
     createdAt |-> doc.created_at, updatedAt |-> doc.updated_at]

\* Tests.$query: `{_id: pickIdOrNil(query.id), foo: query.foo, bar: query.bar}`
Tests_query(query) ==
    [_id |-> IF query.id = Nil THEN Nil ELSE <<ModelId(query.id[1])>>,
     foo |-> query.foo, bar |-> query.bar]

\* Tests.$insert: `_id = values.id ?? toUuid()`
Tests_insert(values, used) ==
    [_id |-> IF values.id = Nil THEN toUuid(used) ELSE values.id[1],
     foo |-> values.foo, bar |-> values.bar]

\* toUnsetOrNil(values, key): `key in values && isNullish(values[key])`
toUnsetOrNil(given) == IF given.has /\ given.value = Nil THEN <<TRUE>> ELSE Nil

\* Tests.$set and Tests.$unset, of values whose key bar is there or not
Tests_set(values) == [foo |-> values.foo, bar |-> values.bar.value]
Tests_unset(values) == [bar |-> toUnsetOrNil(values.bar)]

\* the update document of updateOne / updateMany: $inc is empty, $set has
\* updated_at, and the collection ignores the undefined fields
UpdateFilter(values, at) ==
    [set |-> [updated_at |-> <<at>>] @@ Tests_set(values), unset |-> Tests_unset(values)]

\* a filter matches a document on the fields it gives
Matches(filter, d) ==
    /\ filter._id = Nil \/ filter._id[1] = d._id
    /\ filter.foo = Nil \/ filter.foo[1] = d.foo
    /\ filter.bar = Nil \/ filter.bar = d.bar

\* the _id index and the unique index foo_unique
Duplicates(coll, d) ==
    \E i \in 1..Len(coll) : coll[i]._id = d._id \/ coll[i].foo = d.foo

\* collection.insertOne: a duplicate key is an error and inserts nothing
StoreInsertOne(coll, d) ==
    IF Duplicates(coll, d) THEN [docs |-> coll, err |-> "DuplicationError"]
                           ELSE [docs |-> Append(coll, d), err |-> "none"]

\* collection.insertMany, ordered: the documents are inserted one by one up
\* to the first error, and those inserted before it stay
RECURSIVE StoreInsertMany(_, _)
StoreInsertMany(coll, ds) ==
    IF ds = <<>> THEN [docs |-> coll, err |-> "none"]
    ELSE LET one == StoreInsertOne(coll, Head(ds))
         IN  IF one.err # "none" THEN one ELSE StoreInsertMany(one.docs, Tail(ds))

\* collection.find, findOne and countDocuments
StoreFind(coll, filter) == SelectSeq(coll, LAMBDA d : Matches(filter, d))
StoreFindOne(coll, filter) ==
    IF StoreFind(coll, filter) = <<>> THEN Nil ELSE <<StoreFind(coll, filter)[1]>>
StoreCountDocuments(coll, filter) == Len(StoreFind(coll, filter))

\* cursor.skip(n) and cursor.limit(n), a limit of 0 being no limit
CursorSkip(s, n) == SubSeq(s, n + 1, Len(s))
CursorLimit(s, n) == IF n = 0 THEN s ELSE SubSeq(s, 1, min(n, Len(s)))

\* the index of the first document a filter matches, 0 when there is none
FirstMatch(coll, filter) ==
    IF \E i \in 1..Len(coll) : Matches(filter, coll[i])
      THEN CHOOSE i \in 1..Len(coll) :
               /\ Matches(filter, coll[i])
               /\ \A j \in 1..(i - 1) : ~Matches(filter, coll[j])
      ELSE 0

Without(coll, i) == SubSeq(coll, 1, i - 1) \o SubSeq(coll, i + 1, Len(coll))

\* collection.deleteOne and deleteMany
StoreDeleteOne(coll, filter) ==
    LET i == FirstMatch(coll, filter)
    IN  IF i = 0 THEN [docs |-> coll, deletedCount |-> 0]
                 ELSE [docs |-> Without(coll, i), deletedCount |-> 1]
StoreDeleteMany(coll, filter) ==
    [docs |-> SelectSeq(coll, LAMBDA d : ~Matches(filter, d)),
     deletedCount |-> StoreCountDocuments(coll, filter)]

\* $set, then $unset, on one document
Updated(d, update) ==
    [d EXCEPT !.updated_at = update.set.updated_at,
              !.foo = OrElse(update.set.foo, @),
              !.bar = IF update.unset.bar # Nil THEN Nil
                      ELSE IF update.set.bar # Nil THEN update.set.bar ELSE @]

\* the update would give document i the foo of another document
Collides(coll, i, d) == \E j \in 1..Len(coll) : j # i /\ coll[j].foo = d.foo

\* an update that would insert the document it does not find
StoreFindOneAndUpdateUpsert(coll, filter, update) ==
    LET i == FirstMatch(coll, filter)
        blank == [_id |-> filter._id[1], foo |-> "a", bar |-> Nil,
                  created_at |-> 0, updated_at |-> Nil]
    IN  IF i = 0
          THEN [docs |-> Append(coll, Updated(blank, update)),
                value |-> <<Updated(blank, update)>>, err |-> "none"]
        ELSE IF Collides(coll, i, Updated(coll[i], update))
          THEN [docs |-> coll, value |-> Nil, err |-> "DuplicationError"]
        ELSE [docs |-> [coll EXCEPT ![i] = Updated(coll[i], update)],
              value |-> <<Updated(coll[i], update)>>, err |-> "none"]

\* collection.findOneAndUpdate with returnDocument 'after' and no upsert:
\* null when the filter matches nothing, an error that changes nothing when
\* the update breaks the unique index
StoreFindOneAndUpdate(coll, filter, update) ==
    LET i == FirstMatch(coll, filter)
    IN  IF i = 0 THEN [docs |-> coll, value |-> Nil, err |-> "none"]
        ELSE IF Collides(coll, i, Updated(coll[i], update))
          THEN [docs |-> coll, value |-> Nil, err |-> "DuplicationError"]
        ELSE [docs |-> [coll EXCEPT ![i] = Updated(coll[i], update)],
              value |-> <<Updated(coll[i], update)>>, err |-> "none"]

\* collection.updateMany: the matching documents are updated one by one up
\* to the first error; modifiedCount counts those the update changed
RECURSIVE StoreUpdateMany(_, _, _, _, _)
StoreUpdateMany(coll, filter, update, i, n) ==
    IF i > Len(coll) THEN [docs |-> coll, modifiedCount |-> n, err |-> "none"]
    ELSE IF ~Matches(filter, coll[i]) THEN StoreUpdateMany(coll, filter, update, i + 1, n)
    ELSE IF Collides(coll, i, Updated(coll[i], update))
      THEN [docs |-> coll, modifiedCount |-> n, err |-> "DuplicationError"]
    ELSE StoreUpdateMany([coll EXCEPT ![i] = Updated(coll[i], update)], filter, update,
                         i + 1, IF Updated(coll[i], update) = coll[i] THEN n ELSE n + 1)

\* what `res` keeps of a Models call: the method, the error it raised, the
\* models it returned, the number it returned, whether it went to the store
Res(op, e, ret, count, store) ==
    [op |-> op, err |-> e, ret |-> ret, count |-> count, store |-> store]

\* `isDuplicationError(err) ? new ConflictError(...) : err`
Rethrown(e) == IF e = "DuplicationError" THEN "ConflictError" ELSE e

RECURSIVE MapModels(_)
MapModels(ds) == IF ds = <<>> THEN <<>> ELSE <<Tests_model(Head(ds))>> \o MapModels(Tail(ds))

\* the ids of a collection and of the models the caller holds
IdsOf(coll) == {coll[i]._id : i \in 1..Len(coll)}
HeldIds == {held[i].id : i \in 1..Len(held)}

\* `{created_at: $options.$now, ...this.$insert(values, $options)}`
Inserted(values, at, used) ==
    [created_at |-> at, updated_at |-> Nil] @@ Tests_insert(values, used)

\* `values.map(...)` of insertMany, each toUuid() giving another id
RECURSIVE InsertedAll(_, _, _)
InsertedAll(list, at, used) ==
    IF list = <<>> THEN <<>>
    ELSE LET d == Inserted(Head(list), at, used)
         IN  <<d>> \o InsertedAll(Tail(list), at, used \cup {d._id})

\* Models.insertOne
insertOne(coll, values, at, used) ==
    LET inserted == Inserted(values, at, used)
        out == StoreInsertOne(coll, inserted)
    IN  [docs |-> out.docs,
         res |-> IF out.err = "none"
                   THEN Res("insertOne", "none", <<Tests_model(inserted)>>, 0, TRUE)
                   ELSE Res("insertOne", Rethrown(out.err), <<>>, 0, TRUE)]

\* Models.insertMany
insertMany(coll, list, at, used) ==
    IF Len(list) = 0 THEN [docs |-> coll, res |-> Res("insertMany", "none", <<>>, 0, FALSE)]
    ELSE LET inserted == InsertedAll(list, at, used)
             out == StoreInsertMany(coll, inserted)
         IN  [docs |-> out.docs,
              res |-> IF out.err = "none"
                        THEN Res("insertMany", "none", MapModels(inserted), 0, TRUE)
                        ELSE Res("insertMany", Rethrown(out.err), <<>>, 0, TRUE)]

\* a find that would look every argument up in the store
findLookup(coll, id) ==
    LET found == StoreFindOne(coll, [_id |-> <<ModelId(id)>>, foo |-> Nil, bar |-> Nil])
    IN  IF found = Nil THEN Res("find", "NotFoundError", <<>>, 0, TRUE)
                       ELSE Res("find", "none", MapModels(found), 0, TRUE)

\* Models.find: `if (_id !== id) return id`
find(coll, id) ==
    IF isModelLike(id) THEN Res("find", "none", <<id>>, 0, FALSE)
    ELSE LET found == StoreFindOne(coll, [_id |-> <<ModelId(id)>>, foo |-> Nil, bar |-> Nil])
         IN  IF found = Nil THEN Res("find", "NotFoundError", <<>>, 0, TRUE)
                            ELSE Res("find", "none", MapModels(found), 0, TRUE)

\* Models.findOne
findOne(coll, query) ==
    Res("findOne", "none", MapModels(StoreFindOne(coll, Tests_query(query))), 0, TRUE)

\* Models.paginate: the two assertions, then countDocuments and the page
paginate(coll, query, pagination) ==
    LET offset == OrElse(pagination.offset, 0)
        limit == min(OrElse(pagination.limit, Number(max)), Number(max))
        filter == Tests_query(query)
    IN  IF ~(offset >= 0 /\ isInteger(offset))
           \/ ~(limit >= 0 /\ limit <= Number(max) /\ isInteger(limit))
          THEN Res("paginate", "AssertionError", <<>>, 0, FALSE)
          ELSE Res("paginate", "none",
                   MapModels(CursorLimit(CursorSkip(StoreFind(coll, filter), Whole(offset)),
                                         Whole(limit))),
                   StoreCountDocuments(coll, filter), TRUE)

\* an updateOne that would pass `upsert: true`
updateOneUpsert(coll, id, values, at) ==
    LET out == StoreFindOneAndUpdateUpsert(coll, [_id |-> <<ModelId(id)>>, foo |-> Nil, bar |-> Nil],
                                           UpdateFilter(values, at))
    IN  [docs |-> out.docs,
         res |-> IF out.err # "none" THEN Res("updateOne", out.err, <<>>, 0, TRUE)
                 ELSE IF out.value = Nil THEN Res("updateOne", "NotFoundError", <<>>, 0, TRUE)
                 ELSE Res("updateOne", "none", MapModels(out.value), 0, TRUE)]

\* Models.updateOne: the driver's error, if any, leaves as it is
updateOne(coll, id, values, at) ==
    LET out == StoreFindOneAndUpdate(coll, [_id |-> <<ModelId(id)>>, foo |-> Nil, bar |-> Nil],
                                     UpdateFilter(values, at))
    IN  [docs |-> out.docs,
         res |-> IF out.err # "none" THEN Res("updateOne", out.err, <<>>, 0, TRUE)
                 ELSE IF out.value = Nil THEN Res("updateOne", "NotFoundError", <<>>, 0, TRUE)
                 ELSE Res("updateOne", "none", MapModels(out.value), 0, TRUE)]

\* Models.updateMany
updateMany(coll, query, values, at) ==
    LET out == StoreUpdateMany(coll, Tests_query(query), UpdateFilter(values, at), 1, 0)
    IN  [docs |-> out.docs,
         res |-> IF out.err # "none" THEN Res("updateMany", out.err, <<>>, 0, TRUE)
                 ELSE Res("updateMany", "none", <<>>, out.modifiedCount, TRUE)]

\* a deleteOne that would not mind deleting nothing
deleteOneQuiet(coll, id) ==
    LET out == StoreDeleteOne(coll, [_id |-> <<ModelId(id)>>, foo |-> Nil, bar |-> Nil])
    IN  [docs |-> out.docs, res |-> Res("deleteOne", "none", <<>>, 0, TRUE)]

\* Models.deleteOne
deleteOne(coll, id) ==
    LET out == StoreDeleteOne(coll, [_id |-> <<ModelId(id)>>, foo |-> Nil, bar |-> Nil])
    IN  [docs |-> out.docs,
         res |-> IF out.deletedCount # 1 THEN Res("deleteOne", "NotFoundError", <<>>, 0, TRUE)
                                         ELSE Res("deleteOne", "none", <<>>, 0, TRUE)]

\* Models.deleteMany
deleteMany(coll, query) ==
    LET out == StoreDeleteMany(coll, Tests_query(query))
    IN  [docs |-> out.docs, res |-> Res("deleteMany", "none", <<>>, out.deletedCount, TRUE)]

\* the arguments of the explored calls
InsertValues == [id : {Nil} \cup {<<i>> : i \in GivenIds}, foo : Foos,
                 bar : {Nil} \cup {<<b>> : b \in Bars}]
ListValues == {v \in InsertValues : v.id = Nil /\ v.bar = Nil}
InsertLists == {<<>>} \cup {<<v>> : v \in ListValues} \cup (ListValues \X ListValues)
ModelOrIds == {x \in RawIds : x.value \in GivenIds \cup IdsOf(docs) \cup {toUuid(IdsOf(docs))}}
                  \cup Range(held)
Queries == [id : {Nil} \cup {<<x>> : x \in ModelOrIds}, foo : {Nil} \cup {<<f>> : f \in Foos},
            bar : {Nil}]
UpdateValues ==
    [foo : {Nil, <<"a">>},
     bar : {[has |-> FALSE, value |-> Nil], [has |-> TRUE, value |-> Nil]}
               \cup {[has |-> TRUE, value |-> <<b>>] : b \in Bars}]
Offsets == {Nil} \cup {<<h>> : h \in {Number(-1), 1, Number(1)}}
Limits == Offsets \cup {<<h>> : h \in {0, Number(max) + 1}}
Paginations == {p \in [offset : Offsets, limit : Limits] :
                    p.limit = Nil \/ p.offset \in {Nil, <<Number(1)>>}}
ManyQueries == {query \in Queries : query.id = Nil /\ query.foo # <<"b">>}

\* everything but the collection, the caller's models and the clock
poolSide == <<registered, built, other, config, options, poolVars, taskVars, fb,
              limits, fbs, loads, decayed, dropped, lastRet>>

\* a call that changes the collection; the caller keeps the first model it
\* is returned
Called(out) ==
    /\ calls < ModelCalls
    /\ calls' = calls + 1
    /\ docs' = out.docs
    /\ res' = out.res
    /\ held' = IF held = <<>> /\ Len(out.res.ret) = 1 THEN out.res.ret ELSE held
    /\ UNCHANGED <<poolSide, clock, ticks>>

\* a call that only reads: it changes nothing but res, so the calls that
\* can follow it are those that can follow the state it is made in, and
\* they are explored from there
Read(r) ==
    /\ calls <= ModelCalls
    /\ calls' = ModelCalls + 1
    /\ res' = r
    /\ UNCHANGED <<docs, held, poolSide, clock, ticks>>

InsertOne(values) == Called(insertOne(docs, values, clock, IdsOf(docs) \cup HeldIds))
InsertMany(list) == Called(insertMany(docs, list, clock, IdsOf(docs) \cup HeldIds))
Find(id) == Read(find(docs, id))
FindOne(query) == Read(findOne(docs, query))
Paginate(query, pagination) == Read(paginate(docs, query, pagination))
UpdateOne(id, values) == Called(updateOne(docs, id, values, clock))
UpdateMany(query, values) == Called(updateMany(docs, query, values, clock))
DeleteOne(id) == Called(deleteOne(docs, id))
DeleteMany(query) == Called(deleteMany(docs, query))

\* ---------------------------------------------------------- specification
\* no sum of effective weights exceeds the sum of the static weights
MaxSum == Cardinality(Ids) * WeightUnit * CHOOSE w \in limits.weights : \A v \in limits.weights : v <= w

Next ==
    \/ \E t \in Tasks, g \in limits.types : UpstreamPoolSample(t, g)
    \/ \E t \in Tasks, upstreams \in Loaded : SyncCommit(t, upstreams)
    \/ \E t \in Tasks : LoadFail(t)
    \/ \E t \in Tasks, h \in Hinted, rand \in 0..MaxSum : Draw(t, h, rand)
    \/ \E t \in Tasks : Wake(t)
    \/ \E t \in Tasks : Return(t)
    \/ \E d \in limits.steps : Tick(d)
    \/ \E arg \in FeedbackArgs : Succeed(arg)
    \/ \E arg \in FeedbackArgs : Fail(arg)
    \/ \E g \in limits.types, u \in FeedbackUpstreams : UpstreamPoolSucceed(g, u)
    \/ \E g \in limits.types, u \in FeedbackUpstreams : UpstreamPoolFail(g, u)

\* overlapping sample calls on a pool of at most one upstream
Init == InitWith([fbs |-> MaxFeedbacks, ticks |-> MaxTicks, width |-> 2, steps |-> TimeSteps, watch |-> {},
                  weights |-> {1}, ids |-> {1}, len |-> 1, loaded |-> {1},
                  hints |-> {"none"}, types |-> {"main"}, configs |-> Configs])
Spec == Init /\ [][Next]_vars

\* sample calls that do not overlap (each starts after the one before it
\* has returned), with feedback about one upstream
InitSeq == InitWith([fbs |-> SeqFeedbacks, ticks |-> SeqTicks, width |-> 1, steps |-> TimeSteps, watch |-> {"expiry"},
                     weights |-> {1}, ids |-> {1}, len |-> 2, loaded |-> Ids,
                     hints |-> {"none", "same", "diff"}, types |-> {"main"},
                     configs |-> Configs])
SpecSeq == InitSeq /\ [][Next]_vars

\* feedback calls about one upstream, between sample calls that do not
\* overlap
InitFb == InitWith([fbs |-> FbFeedbacks, ticks |-> FbTicks, width |-> 1, steps |-> TimeSteps, watch |-> {},
                    weights |-> {1}, ids |-> {1}, len |-> 2, loaded |-> Ids,
                    hints |-> {"none"}, types |-> {"main"}, configs |-> Configs])
SpecFb == InitFb /\ [][Next]_vars

\* two groups: sample calls that do not overlap on one, feedback through
\* the registry about both
InitReg == InitWith([fbs |-> RegFeedbacks, ticks |-> RegTicks, width |-> 1, steps |-> TimeSteps, watch |-> {},
                     weights |-> {1}, ids |-> {1}, len |-> 1, loaded |-> {1},
                     hints |-> {"none"}, types |-> Types, configs |-> Configs])
SpecReg == InitReg /\ [][Next]_vars

\* overlapping sample calls on a cache of at most one upstream, loaded once
InitPar == InitWith([fbs |-> ParFeedbacks, ticks |-> ParTicks, width |-> 2, steps |-> {500}, watch |-> {"sleepers"},
                     weights |-> {1}, ids |-> {1}, len |-> 1, loaded |-> {1},
                     hints |-> {"none"}, types |-> {"main"}, configs |-> LongLived])
SpecPar == InitPar /\ [][Next]_vars

\* one upstream that the loader returns with static weight 1 or 2
InitWeights == InitWith([fbs |-> WeightFeedbacks, ticks |-> WeightTicks, width |-> 1,
                         steps |-> {1000}, watch |-> {},
                         weights |-> {1, 2}, ids |-> {1}, len |-> 1, loaded |-> {1},
                         hints |-> {"none"}, types |-> {"main"}, configs |-> Configs])
SpecWeights == InitWeights /\ [][Next]_vars

\* one upstream that the loader returns or leaves out, decayed by every fail
InitDrop == InitWith([fbs |-> DropFeedbacks, ticks |-> DropTicks, width |-> 1,
                      steps |-> {1000}, watch |-> {"dropped"},
                      weights |-> {1}, ids |-> {1}, len |-> 1, loaded |-> {1},
                      hints |-> {"none"}, types |-> {"main"}, configs |-> Eager])
SpecDrop == InitDrop /\ [][Next]_vars

\* long-lived upstreams, one of which gets feedback, under pools that
\* differ in minWeight only
InitFloor == InitWith([fbs |-> FloorFeedbacks, ticks |-> FloorTicks, width |-> 1,
                       steps |-> {1000}, watch |-> {},
                       weights |-> {1}, ids |-> {1}, len |-> 2, loaded |-> Ids,
                       hints |-> {"none"}, types |-> {"main"}, configs |-> Floors])
SpecFloor == InitFloor /\ [][Next]_vars

\* long-lived upstreams, both of which get feedback, under pools that
\* differ in minFailures only
InitKeys == InitWith([fbs |-> KeysFeedbacks, ticks |-> KeysTicks, width |-> 1,
                      steps |-> {1000}, watch |-> {},
                      weights |-> {1}, ids |-> Ids, len |-> 2, loaded |-> Ids,
                      hints |-> {"none"}, types |-> {"main"}, configs |-> Thresholds])
SpecKeys == InitKeys /\ [][Next]_vars

\* two sample calls, each made once and followed to its end, with a clock
\* that moves on while a call is asleep
NextLive ==
    \/ \E t \in Tasks, g \in limits.types : UpstreamPoolSample(t, g)
    \/ \E t \in Tasks, upstreams \in Loaded : SyncCommit(t, upstreams)
    \/ \E t \in Tasks : LoadFail(t)
    \/ \E t \in Tasks, h \in Hinted, rand \in 0..MaxSum : Draw(t, h, rand)
    \/ \E t \in Tasks : Wake(t)
    \/ \E t \in Tasks : Elapse(t)
    \/ \E d \in limits.steps : Tick(d)

InitLive == InitWith([fbs |-> 0, ticks |-> LiveTicks, width |-> 2, steps |-> {500}, watch |-> {},
                      weights |-> {1}, ids |-> {1}, len |-> 2, loaded |-> Ids,
                      hints |-> {"none", "same", "diff"}, types |-> {"main"},
                      configs |-> Configs])

\* a continuation that can run does run, a timer that is due fires, and
\* time passes; a loader need never answer
SpecLive ==
    /\ InitLive
    /\ [][NextLive]_vars
    /\ \A t \in Tasks :
         /\ WF_vars(\E h \in Hinted, rand \in 0..MaxSum : Draw(t, h, rand))
         /\ WF_vars(Wake(t))
         /\ WF_vars(Elapse(t))

\* the calls on a Models of one caller, one at a time, and the clock
NextModels ==
    \/ \E values \in InsertValues : InsertOne(values)
    \/ \E list \in InsertLists : InsertMany(list)
    \/ \E id \in ModelOrIds : Find(id)
    \/ \E query \in Queries : FindOne(query)
    \/ \E query \in ManyQueries, pagination \in Paginations : Paginate(query, pagination)
    \/ \E id \in ModelOrIds, values \in UpdateValues : UpdateOne(id, values)
    \/ \E query \in ManyQueries, values \in UpdateValues : UpdateMany(query, values)
    \/ \E id \in ModelOrIds : DeleteOne(id)
    \/ \E query \in Queries : DeleteMany(query)
    \/ \E d \in limits.steps : Tick(d)

InitModels == InitWith([fbs |-> 0, ticks |-> ModelTicks, width |-> 0, steps |-> {1000},
                        watch |-> {}, weights |-> {1}, ids |-> {}, len |-> 0, loaded |-> {},
                        hints |-> {"none"}, types |-> {"main"}, configs |-> Configs])
SpecModels == InitModels /\ [][NextModels]_vars

\* pools constructed with any options
InitCfg == InitWith([fbs |-> CfgFeedbacks, ticks |-> CfgTicks, width |-> 1, steps |-> TimeSteps, watch |-> {},
                     weights |-> {1}, ids |-> {1}, len |-> 1, loaded |-> {1},
                     hints |-> {"none"}, types |-> {"main"}, configs |-> AnyConfigs])
SpecCfg == InitCfg /\ [][Next]_vars

\* up to two cached upstreams of weight 0 or 1 each, loaded once
InitDraw == InitWith([fbs |-> DrawFeedbacks, ticks |-> DrawTicks, width |-> 1, steps |-> {500}, watch |-> {},
                      weights |-> {0, 1}, ids |-> {1}, len |-> 2, loaded |-> Ids,
                      hints |-> {"none"}, types |-> {"main"},
                      configs |-> LongLived])
SpecDraw == InitDraw /\ [][Next]_vars

TypeOK ==
    /\ registered \in BOOLEAN
    /\ caches \in Snapshots
    /\ DOMAIN failures \subseteq Keys
    /\ DOMAIN times \subseteq Keys
    /\ DOMAIN weights \subseteq Keys
    /\ \A t \in Tasks : pc[t] \in {"idle", "load", "synced", "sleep", "done"}

\* ================================================================ properties
\* the step of a sample call that collects the candidates and draws
DrawStep(t) == pc[t] = "synced" /\ pc'[t] # "synced"

\* the step in which a sample call's load is committed to the pool
CommitStep(t) == pc[t] = "load" /\ pc'[t] = "synced"

\* the step in which a sample call returns an upstream
ReturnStep(t) == pc[t] \in {"synced", "sleep"} /\ pc'[t] = "done" /\ err'[t] = "none"

\* what a hint asks of an upstream
Satisfies(h, x) ==
    \/ h.type = "same" /\ x.id = pickId(h.upstream)
    \/ h.type = "diff" /\ x.id # pickId(h.upstream)

\* the static weight of the cached upstream with key k
StaticWeight(cache, k) == (CHOOSE x \in Range(cache) : Key(x) = k).weight

\* C1: when a hint is given and some cached upstream satisfies it, the
\* sample call selects an upstream that satisfies it: the hinted one for
\* `same`, another one for `diff`.
C1_HintHonoured ==
    [][\A t \in Tasks :
         (/\ DrawStep(t)
          /\ hint'[t].type # "none"
          /\ \E x \in Range(caches) : Satisfies(hint'[t], x))
         => /\ err'[t] = "none"
            /\ sel'[t] # <<>>
            /\ sel'[t][1] \in Range(caches)
            /\ Satisfies(hint'[t], sel'[t][1])]_vars

\* a call with the hint `same 1` has selected upstream 1 out of a cache
\* that also holds upstream 2
C1_Witness ==
    \E t \in Tasks :
        /\ pc[t] = "done" /\ err[t] = "none"
        /\ hint[t].type = "same"
        /\ sel[t] # <<>> /\ sel[t][1].id = pickId(hint[t].upstream)
        /\ Len(caches) = 2

\* C2: when a hint is given, the cache is not empty and no cached upstream
\* satisfies the hint, the sample call does not fail: it selects an
\* upstream of the whole cache.
C2_HintFallback ==
    [][\A t \in Tasks :
         (/\ DrawStep(t)
          /\ hint'[t].type # "none"
          /\ caches # <<>>
          /\ \A x \in Range(caches) : ~Satisfies(hint'[t], x))
         => /\ err'[t] = "none"
            /\ sel'[t] # <<>>
            /\ sel'[t][1] \in Range(caches)]_vars

\* a call with the hint `diff 1` has selected upstream 1, the only one cached
C2_Witness ==
    \E t \in Tasks :
        /\ pc[t] = "done" /\ err[t] = "none"
        /\ hint[t].type = "diff"
        /\ sel[t] # <<>> /\ sel[t][1].id = pickId(hint[t].upstream)
        /\ Len(caches) = 1

\* C3: a sample call ends with NoUpstreamError exactly when the cache is
\* empty at the draw; with weights >= 0 the throw after the loop is never
\* reached.
C3_NoUpstreamIffEmpty ==
    [][\A t \in Tasks :
         DrawStep(t) => (err'[t] = "NoUpstreamError" <=> caches = <<>>)]_vars

\* a call has ended with NoUpstreamError on an empty cache that a load filled
\* with nothing
C3_Witness ==
    \E t \in Tasks :
        /\ pc[t] = "done" /\ err[t] = "NoUpstreamError"
        /\ caches = <<>> /\ loads.st = "ok"

\* C4: fail on a cached upstream adds exactly 1 to its failure count, and
\* multiplies its effective weight by decay when the new count is at least
\* minFailures; below that the effective weight stays as it was.
C4_FailDecays ==
    (fb.op = "fail" /\ fb.cached) =>
        LET k == fb.key
            count == (IF fb.was.failure = -1 THEN 0 ELSE fb.was.failure) + 1
            before == IF fb.was.weight = -1 THEN StaticWeight(caches, k)
                                            ELSE fb.was.weight
            after == IF Has(weights, k) THEN weights[k] ELSE StaticWeight(caches, k)
        IN  /\ fb.err = "none"
            /\ Has(failures, k) /\ failures[k] = count
            /\ IF count >= options.minFailures
                 THEN after * DecayDen = before * DecayNum
                 ELSE after = before

\* with minFailures = 2, the third fail in a row has decayed a weight that
\* the second had already decayed
C4_Witness ==
    /\ fb.op = "fail" /\ fb.cached
    /\ options.minFailures = 2
    /\ fb.was.failure = 2 /\ failures[fb.key] = 3
    /\ fb.was.weight * DecayDen = StaticWeight(caches, fb.key) * DecayNum
    /\ weights[fb.key] * DecayDen = fb.was.weight * DecayNum

\* C5: succeed on a cached upstream sets its failure count to 0 and its
\* effective weight to its static weight, whatever fail calls came before.
C5_SucceedResets ==
    (fb.op = "succeed" /\ fb.cached) =>
        /\ fb.err = "none"
        /\ failure(fb.key) = 0
        /\ Get(weights, fb.key, StaticWeight(caches, fb.key))
             = StaticWeight(caches, fb.key)

\* succeed has reset an upstream that two fail calls had decayed
C5_Witness ==
    /\ fb.op = "succeed" /\ fb.cached
    /\ fb.was.failure = 2
    /\ fb.was.weight # -1 /\ fb.was.weight < StaticWeight(caches, fb.key)
    /\ failures[fb.key] = 0
    /\ weights[fb.key] = StaticWeight(caches, fb.key)

\* C6: when the sample calls do not overlap and two calls in a row return
\* the same upstream, the second returns, and stamps #times, no earlier than
\* interval * 1000 ms after the stamp of the first.
C6_IntervalKept ==
    [][\A t \in Tasks :
         (ReturnStep(t) /\ lastRet.id = sel'[t][1].id)
         => /\ times'[Key(sel'[t][1])] = clock
            /\ lastRet'.at = clock
            /\ clock >= lastRet.at + sel'[t][1].interval]_vars

\* a call that had to sleep has returned the upstream that the call before
\* it had returned
C6_Witness ==
    \E t \in Tasks :
        /\ pc[t] = "done" /\ err[t] = "none" /\ sel[t] # <<>>
        /\ wake[t] > 0 /\ clock = wake[t]
        /\ lastRet = [id |-> sel[t][1].id, at |-> clock]
        /\ times[Key(sel[t][1])] = clock

\* C7: a succeed or fail call that a pool receives about an upstream whose
\* key is not in the pool's cache raises the assertion error and leaves the
\* entries under that key as they were, whether the argument is an id or an
\* upstream object and whether the call is direct or through the registry.
C7_UnknownRejected ==
    (fb.op # "none" /\ fb.pool /\ ~fb.known) =>
        /\ fb.err = "AssertionError"
        /\ Get(failures, fb.key, -1) = fb.was.failure
        /\ Get(weights, fb.key, -1) = fb.was.weight

\* C8: right after a load is committed, #failures and #times hold no entry
\* for a key that the loaded list does not have.
C8_PurgedAfterRefresh ==
    [][\A t \in Tasks :
         CommitStep(t) => /\ DOMAIN failures' \subseteq CacheKeys(caches')
                          /\ DOMAIN times' \subseteq CacheKeys(caches')]_vars

\* C9: a refresh leaves the entries of #failures, #weights and #times as
\* they were (present with the same value, or absent) under every key that
\* is both in the cache before it and in the loaded list.
C9_FeedbackSurvives ==
    [][\A t \in Tasks :
         CommitStep(t) =>
             \A k \in CacheKeys(caches) \cap CacheKeys(caches') :
                 /\ Get(failures', k, -1) = Get(failures, k, -1)
                 /\ Get(weights', k, -1) = Get(weights, k, -1)
                 /\ Get(times', k, -1) = Get(times, k, -1)]_vars

\* a refresh has just been committed, and an upstream that was sampled and
\* failed before the refresh was invoked still has both entries
C9_Witness ==
    \E t \in Tasks : \E k \in CacheKeys(caches) :
        /\ pc[t] = "synced" /\ loads.st = "ok"
        /\ expiresAt = Expiry(loads.at) /\ loads.at = clock /\ clock > Epoch
        /\ Has(times, k) /\ times[k] < loads.at
        /\ Has(failures, k) /\ failures[k] > 0

\* the step in which a sample call invokes the loader
InvokeStep(t) == pc[t] = "idle" /\ pc'[t] = "load"

\* C10 as stated: whatever the execution, a loader invocation comes no
\* earlier than ttl * 1000 ms after the invocation before it.
C10_OncePerWindow ==
    [][\A t \in Tasks :
         (InvokeStep(t) /\ loads.st # "none")
         => clock >= loads.at + options.ttl * 1000]_vars

\* C10: after a load that succeeded and whose sample call overlapped no
\* other sample call while it loaded, the loader is next invoked no earlier
\* than ttl * 1000 ms after the start of that call's #sync.
C10_OncePerWindowSolo ==
    [][\A t \in Tasks :
         (InvokeStep(t) /\ loads.st = "ok" /\ loads.solo)
         => clock >= loads.at + options.ttl * 1000]_vars

\* the loader has been invoked again after such a load, a ttl or more later
C10_Witness ==
    /\ loads.st = "pending" /\ loads.after = "solo"
    /\ loads.at >= Epoch + options.ttl * 1000

\* C11: for a group at most one Pool is ever constructed and registered,
\* however many first sample calls are in flight, and a registered pool is
\* never replaced or removed.
C11_OnePoolPerGroup ==
    [][/\ built' <= 1
       /\ (registered' <=> built' = 1)
       /\ (registered => registered' /\ built' = built)
       /\ other'.built <= 1
       /\ (other'.registered <=> other'.built = 1)
       /\ (other.registered => other'.registered /\ other'.built = other.built)]_vars

\* two sample calls are in flight before any load has been committed, both
\* waiting for the loader of the one pool that was constructed
C11_Witness ==
    /\ \A t \in Tasks : pc[t] = "load"
    /\ expiresAt = 0
    /\ registered /\ built = 1

\* C12: a succeed or fail call on the registry writes to the pool of the
\* group the upstream names and leaves the pool of the other group as it
\* was; when that group has no pool the call raises nothing, registers no
\* pool and changes nothing.
C12_FeedbackRouted ==
    [][(fb'.op # "none" /\ fb'.via # "pool") =>
         /\ (fb'.via = "main" => other' = other)
         /\ (fb'.via = "other" => UNCHANGED <<poolVars, decayed>>)
         /\ ((fb'.pool /\ fb'.via = "main") => Has(failures', fb'.key))
         /\ ((fb'.pool /\ fb'.via = "other") => Has(other'.failures, fb'.key))
         /\ (~fb'.pool => /\ fb'.err = "none"
                          /\ UNCHANGED <<registered, built, other, poolVars, decayed>>)
         /\ UNCHANGED <<registered, built>>
         /\ other'.registered = other.registered]_vars

\* both groups have a pool; a fail call about the main group has been
\* applied to its pool while the other group's pool holds an entry of its own
C12_Witness ==
    /\ fb.op = "fail" /\ fb.via = "main" /\ fb.pool
    /\ other.registered /\ Has(other.failures, fb.key)
    /\ Has(failures, fb.key) /\ failures[fb.key] = 1
    /\ other.failures[fb.key] = 0

\* the step in which a sample call's load fails
LoadFailStep(t) == pc[t] = "load" /\ pc'[t] = "done"

\* the step in which a sample call starts
StartStep(t) == pc[t] = "idle" /\ pc'[t] # "idle"

\* C13: when the loader fails, the sample call ends with the loader's error
\* without invoking the loader again, neither of the call's steps has
\* changed the pool state, and the next sample call invokes the loader.
C13_LoadFailure ==
    [][\A t \in Tasks :
         /\ InvokeStep(t) => UNCHANGED <<poolVars, decayed>>
         /\ LoadFailStep(t) =>
              /\ err'[t] = "LoadError"
              /\ loads' = [loads EXCEPT !.st = "err"]
              /\ UNCHANGED <<poolVars, decayed, registered, built>>
         /\ (StartStep(t) /\ loads.st = "err") =>
              /\ pc'[t] = "load"
              /\ loads'.st = "pending" /\ loads'.at = clock]_vars

\* after a load that filled the cache, a later load has failed and the call
\* after it has invoked the loader again
C13_Witness ==
    /\ loads.st = "pending" /\ loads.after = "other"
    /\ caches # <<>> /\ expiresAt <= loads.at
    /\ \A t \in Tasks : err[t] = "none"

\* what is required of the options a pool is constructed with, a missing
\* one standing for ttl 60, minFailures 0, minWeight 0.01, decay 0.8
Accepted(c) ==
    /\ (c.ttl # Nil => c.ttl[1] >= 1)
    /\ (c.minFailures # Nil => c.minFailures[1] >= 0)
    /\ (c.minWeight # Nil => c.minWeight[1] >= 0)
    /\ (c.decay # Nil => 0 < c.decay[1].num /\ c.decay[1].num < c.decay[1].den)

\* C14: the first sample call of a group constructs and registers its Pool
\* exactly when ttl >= 1, minFailures >= 0, minWeight >= 0 and 0 < decay < 1
\* hold of the options with the defaults 60, 0, 0.01 and 0.8 for the missing
\* ones; otherwise the call fails by assertion and no pool is registered.
C14_ConfigValidated ==
    [][\A t \in Tasks :
         (StartStep(t) /\ ~registered) =>
             /\ registered' <=> Accepted(config)
             /\ Accepted(config) =>
                  /\ built' = 1 /\ err'[t] = "none"
                  /\ options.ttl = (IF config.ttl = Nil THEN 60 ELSE config.ttl[1])
                  /\ options.minFailures
                       = (IF config.minFailures = Nil THEN 0 ELSE config.minFailures[1])
                  /\ options.minWeight
                       = (IF config.minWeight = Nil THEN 1 ELSE config.minWeight[1])
                  /\ options.decay.num * 5
                       = (IF config.decay = Nil THEN 4 * options.decay.den
                                                ELSE config.decay[1].num * 5)
             /\ ~Accepted(config) =>
                  /\ err'[t] = "AssertionError" /\ pc'[t] = "done"
                  /\ built' = 0
                  /\ UNCHANGED <<poolVars, other>>]_vars

\* a first sample call has failed by assertion on options whose only fault
\* is decay = 1, and no pool is registered
C14_Witness ==
    \E t \in Tasks :
        /\ pc[t] = "done" /\ err[t] = "AssertionError"
        /\ ~registered /\ built = 0
        /\ config.ttl = Nil /\ config.minFailures = Nil /\ config.minWeight = Nil
        /\ config.decay # Nil /\ config.decay[1].num = config.decay[1].den

\* the effective weight of the i-th candidate
Effective(c, i) == Get(weights, Key(c[i]), c[i].weight)

\* C15: when every candidate's effective weight is 0, the call selects the
\* first candidate in cache order, whatever the random value.
C15_ZeroWeightsFirst ==
    [][\A t \in Tasks : DrawStep(t) => \A h \in Hinted, r \in 0..MaxSum :
         LET c == Candidates(caches, h)
         IN  (/\ Draw(t, h, r)
              /\ Len(c) > 0
              /\ \A i \in 1..Len(c) : Effective(c, i) = 0)
             => /\ sel'[t] = <<c[1]>>
                /\ err'[t] = "none"
                /\ pc'[t] \in {"sleep", "done"}]_vars

\* a call has selected the first of two cached upstreams that both have
\* effective weight 0
C15_Witness ==
    \E t \in Tasks :
        /\ pc[t] \in {"sleep", "done"} /\ err[t] = "none"
        /\ hint[t] = NoHint
        /\ Len(caches) = 2
        /\ \A i \in 1..2 : Effective(caches, i) = 0
        /\ sel[t] = <<caches[1]>>

\* w1 + ... + wi
RECURSIVE PrefixSum(_, _)
PrefixSum(c, i) == IF i = 0 THEN 0 ELSE PrefixSum(c, i - 1) + Effective(c, i)

\* the indices whose prefix sum the random value does not exceed
Reached(c, r) == {i \in 1..Len(c) : r - PrefixSum(c, i) <= 0}

\* C16: for candidates c1..cn in cache order and a random value r below the
\* sum of their effective weights, the call selects the candidate of the
\* smallest index i with r - (w1 + ... + wi) <= 0.
C16_DrawReference ==
    [][\A t \in Tasks : DrawStep(t) => \A h \in Hinted, r \in 0..MaxSum :
         LET c == Candidates(caches, h)
         IN  (/\ Draw(t, h, r)
              /\ Len(c) > 0
              /\ PrefixSum(c, Len(c)) > 0)
             => /\ Reached(c, r) # {}
                /\ sel'[t] = <<c[CHOOSE i \in Reached(c, r) :
                                    \A j \in Reached(c, r) : i <= j]>>]_vars

\* a call has drawn the second of two cached upstreams that both have a
\* positive effective weight
C16_Witness ==
    \E t \in Tasks :
        /\ pc[t] \in {"sleep", "done"} /\ err[t] = "none"
        /\ hint[t] = NoHint
        /\ Len(caches) = 2
        /\ \A i \in 1..2 : Effective(caches, i) > 0
        /\ sel[t] = <<caches[2]>>

\* C17: whenever a sample call returns the upstream that the latest return
\* before it had returned, overlapping with that call or not, the two return
\* stamps are at least interval * 1000 ms apart.
C17_IntervalSerialized ==
    [][\A t \in Tasks :
         (ReturnStep(t) /\ lastRet.id = sel'[t][1].id)
         => lastRet'.at - lastRet.at >= sel'[t][1].interval]_vars

\* C18: while a sample call is asleep in its rate-limit wait, the pool is
\* not blocked: every other sample call can take its next step, whether it
\* is about to start, to commit its load, to draw, to wake or to return, and
\* succeed and fail can be called.
C18_SleepBlocksOnlyCaller ==
    \A t \in Tasks : pc[t] = "sleep" =>
        /\ \A s \in Tasks \ {t} :
             /\ pc[s] = "idle" => ENABLED SampleStart(s)
             /\ pc[s] = "load" => ENABLED (\E u \in Loaded : SyncCommit(s, u))
             /\ pc[s] = "synced" => ENABLED (\E h \in Hinted, r \in 0..MaxSum : Draw(s, h, r))
             /\ (pc[s] = "sleep" /\ clock >= wake[s]) => ENABLED Wake(s)
             /\ pc[s] = "done" => ENABLED Return(s)
        /\ fbs < limits.fbs =>
             \A u \in FeedbackUpstreams : ENABLED Succeed(u) /\ ENABLED Fail(u)

\* a sample call that was invoked while another call was asleep has
\* returned the upstream that call is waiting for, and that call is still
\* asleep
C18_Witness ==
    \E t \in Tasks, s \in Tasks :
        /\ s # t
        /\ pc[t] = "sleep"
        /\ t \in call[s].sleepers
        /\ pc[s] = "done" /\ err[s] = "none"
        /\ sel[s] = sel[t]
        /\ times[Key(sel[s][1])] = clock

\* C19 as stated: a sample call that is suspended in its rate-limit wait has
\* changed no pool state since it was invoked.  No other sample call runs
\* meanwhile here, so the expiry it found is still the pool's.
C19_NoMutationSinceInvoked ==
    \A t \in Tasks : pc[t] = "sleep" => expiresAt = call[t].seen

\* C19: what a sample call changes before its wait, it changes in the
\* refresh that its #sync commits; its invocation and its draw write
\* nothing, nothing is written on its behalf while it is asleep, and when
\* the wait is over it writes #times of the selected upstream and nothing
\* else.
C19_NoMutationInWait ==
    [][\A t \in Tasks :
         /\ StartStep(t) => UNCHANGED poolVars
         /\ (DrawStep(t) /\ pc'[t] = "sleep") => UNCHANGED poolVars
         /\ (pc[t] = "sleep" /\ pc'[t] = "sleep" /\ fb'.op = "none") => UNCHANGED poolVars
         /\ (pc[t] = "sleep" /\ pc'[t] # "sleep")
              => /\ pc'[t] = "done"
                 /\ times' = Set(times, Key(sel[t][1]), clock)
                 /\ UNCHANGED <<caches, expiresAt, failures, weights>>
         /\ (pc[t] # "load" /\ expiresAt' # expiresAt) => pc'[t] = pc[t]]_vars

\* a call that refreshed the cache is asleep in its wait
C19_Witness ==
    \E t \in Tasks :
        /\ pc[t] = "sleep" /\ clock < wake[t]
        /\ expiresAt # call[t].seen
        /\ expiresAt = Expiry(loads.at) /\ loads.st = "ok"

\* C20: in every reachable state, the weight the draw uses for a cached
\* upstream is the static weight it has in the current cache, unless fail
\* has decayed it since its last succeed.
C20_EffectiveWeight ==
    \A i \in 1..Len(caches) :
        Key(caches[i]) \notin decayed
            => weight(Key(caches[i]), caches[i].weight) = caches[i].weight

\* C21: when a refresh loads again an upstream that an earlier refresh had
\* left out while fail had its weight decayed, the upstream is back without
\* a failure count and without a sample time, and with the effective weight
\* it had when it was left out.
C21_WeightOutlivesRefresh ==
    [][\A t \in Tasks :
         CommitStep(t) =>
             \A k \in DOMAIN dropped \cap CacheKeys(caches') :
                 /\ ~Has(failures', k)
                 /\ ~Has(times', k)
                 /\ Has(weights', k) /\ weights'[k] = dropped[k]]_vars

\* C22: minWeight is no floor and changes nothing: whatever minWeight the
\* pool was constructed with, a cached upstream with a failure count of n
\* has the effective weight static weight * decay^n, however far below
\* minWeight that is, and minWeight is the only option the pools differ in.
C22_MinWeightIgnored ==
    /\ options.minWeight \in {1, 50}
    /\ [options EXCEPT !.minWeight = 1] = WithDefaults(CHOOSE c \in Floors : c.minWeight = Nil)
    /\ \A k \in CacheKeys(caches) \cap DOMAIN failures :
           weight(k, StaticWeight(caches, k)) * Pow(DecayDen, failures[k])
               = StaticWeight(caches, k) * Pow(DecayNum, failures[k])

\* under minWeight 0.5, two fail calls have taken a weight of 1 to 0.25
C22_Witness ==
    /\ options.minWeight = 50
    /\ fb.op = "fail" /\ fb.cached /\ fb.err = "none"
    /\ failures[fb.key] = 2
    /\ weights[fb.key] * DecayDen * DecayDen = StaticWeight(caches, fb.key) * DecayNum * DecayNum
    /\ weights[fb.key] * 100 < options.minWeight * WeightUnit

\* the random values, out of the Sum(c) unit intervals that `Math.random()
\* * sum` falls in with equal probability, on which the draw selects c[i]
Selecting(c, i) == {r \in 1..Sum(c) : Walk(c, 1, r) = <<c[i]>>}

\* C23: when a call draws from two candidates with effective weights w1,
\* w2 > 0, candidate i is selected on wi of the w1 + w2 equally likely
\* values of the random number: its probability is wi / (w1 + w2), so the
\* selection ratio of many draws converges to w1 : w2.
C23_WeightedFairness ==
    [][\A t \in Tasks : DrawStep(t) =>
         LET c == Candidates(caches, hint'[t])
         IN  (Len(c) = 2 /\ \A i \in 1..2 : Effective(c, i) > 0)
             => /\ Sum(c) = Effective(c, 1) + Effective(c, 2)
                /\ \A i \in 1..2 : Cardinality(Selecting(c, i)) = Effective(c, i)
                /\ err'[t] = "none"
                /\ \E i \in 1..2 : sel'[t] = <<c[i]>>]_vars

\* a call has drawn the second of two upstreams, the first of which two
\* decaying fail calls have left at a quarter of the weight of the second
C23_Witness ==
    \E t \in Tasks :
        /\ pc[t] \in {"sleep", "done"} /\ err[t] = "none"
        /\ Len(caches) = 2 /\ hint[t] = NoHint
        /\ Effective(caches, 1) > 0
        /\ Effective(caches, 1) * 4 = Effective(caches, 2)
        /\ sel[t] = <<caches[2]>>

\* C29: a sample call whose #sync finds now < expiresAt invokes no loader
\* and changes no pool state; one that finds now >= expiresAt invokes the
\* loader; and the refresh it commits sets expiresAt to the clock value of
\* that invocation plus ttl * 1000, whatever the clock is at the commit.
C29_FreshnessAndStamp ==
    [][\A t \in Tasks :
         /\ (StartStep(t) /\ err'[t] = "none") =>
                IF clock < expiresAt
                  THEN /\ pc'[t] = "synced"
                       /\ loads'.at = loads.at /\ loads'.st = loads.st
                       /\ UNCHANGED <<poolVars, decayed>>
                  ELSE /\ pc'[t] = "load"
                       /\ loads'.st = "pending" /\ loads'.at = clock
                       /\ now'[t] = clock
         /\ CommitStep(t) =>
                /\ loads.st = "pending" /\ loads'.st = "ok"
                /\ expiresAt' = loads.at + options.ttl * 1000]_vars

\* a refresh has been committed after the clock moved on during the load:
\* the cache expires ttl * 1000 after the invocation, less than that from now
C29_Witness ==
    \E t \in Tasks :
        /\ pc[t] = "synced" /\ loads.st = "ok"
        /\ clock > loads.at
        /\ expiresAt = loads.at + options.ttl * 1000
        /\ expiresAt < clock + options.ttl * 1000

\* C30: a sample call that finds the cache empty and not yet expired invokes
\* no loader, leaves the pool as it is, and ends with NoUpstreamError.
C30_EmptyCached ==
    [][\A t \in Tasks :
         /\ (StartStep(t) /\ caches = <<>> /\ clock < expiresAt) =>
                /\ pc'[t] = "synced"
                /\ loads'.at = loads.at /\ loads'.st = loads.st
                /\ UNCHANGED poolVars
         /\ (DrawStep(t) /\ caches = <<>>) =>
                /\ pc'[t] = "done" /\ err'[t] = "NoUpstreamError"
                /\ UNCHANGED poolVars]_vars

\* a call that found the empty list of an earlier load still cached has
\* ended with NoUpstreamError, the loader not having been invoked since
C30_Witness ==
    \E t \in Tasks :
        /\ pc[t] = "done" /\ err[t] = "NoUpstreamError"
        /\ caches = <<>> /\ loads.st = "ok"
        /\ call[t].seen = expiresAt /\ expiresAt > clock
        /\ clock > loads.at

\* the values name an _id or a foo that a document of the collection has
Existing(coll, values) ==
    \/ values.id # Nil /\ values.id[1] \in IdsOf(coll)
    \/ \E i \in 1..Len(coll) : coll[i].foo = values.foo

\* the document added last is the one of the values, created now, and the
\* model returned is its model
AddedLast(coll, values, at, m) ==
    /\ coll # <<>>
    /\ LET d == coll[Len(coll)]
       IN  /\ values.id # Nil => d._id = values.id[1]
           /\ d.foo = values.foo /\ d.bar = values.bar
           /\ d.created_at = at /\ d.updated_at = Nil
           /\ m = Tests_model(d)

\* C24: insertOne, and insertMany of a list, of values whose _id or foo a
\* document of the collection already has, raise ConflictError and leave
\* the collection as it was; insertOne of other values appends their
\* document with created_at set to now and returns its model, and so does
\* insertMany for each element of a list of other values with distinct foo.
C24_InsertConflict ==
    [][/\ res'.op = "insertOne" => \A values \in InsertValues :
            InsertOne(values) =>
                IF Existing(docs, values)
                  THEN res'.err = "ConflictError" /\ docs' = docs
                  ELSE /\ res'.err = "none" /\ Len(res'.ret) = 1
                       /\ docs' = Append(docs, docs'[Len(docs')])
                       /\ AddedLast(docs', values, clock, res'.ret[1])
       /\ res'.op = "insertMany" => \A list \in InsertLists :
            InsertMany(list) =>
                IF \E i \in 1..Len(list) : Existing(docs, list[i])
                  THEN res'.err = "ConflictError" /\ docs' = docs
                  ELSE (\A i, j \in 1..Len(list) : list[i].foo = list[j].foo => i = j)
                       => /\ res'.err = "none" /\ Len(res'.ret) = Len(list)
                          /\ Len(docs') = Len(docs) + Len(list)
                          /\ SubSeq(docs', 1, Len(docs)) = docs
                          /\ \A i \in 1..Len(list) :
                                 AddedLast(SubSeq(docs', 1, Len(docs) + i), list[i],
                                           clock, res'.ret[i])]_vars

\* the query {id: x}
ById(id) == [id |-> <<id>>, foo |-> Nil, bar |-> Nil]

\* C25: deleteOne(x) removes the document whose _id is x and no other, and
\* raises NotFoundError, the collection staying as it was, when there is
\* none; right after a deleteOne(x) that succeeded, findOne({id: x}) gives
\* Nil and deleteOne(x) raises NotFoundError; deleteMany returns the number
\* of documents it removed, and gives 0 when it is made again.
C25_DeleteOnce ==
    [][/\ res'.op = "deleteOne" => \A id \in ModelOrIds :
            DeleteOne(id) =>
                IF ModelId(id) \in IdsOf(docs)
                  THEN /\ res'.err = "none"
                       /\ docs' = SelectSeq(docs, LAMBDA d : d._id # ModelId(id))
                       /\ Len(docs') = Len(docs) - 1
                       /\ findOne(docs', ById(id)).ret = <<>>
                       /\ deleteOne(docs', id).res.err = "NotFoundError"
                       /\ deleteOne(docs', id).docs = docs'
                  ELSE res'.err = "NotFoundError" /\ docs' = docs
       /\ res'.op = "deleteMany" => \A query \in Queries :
            DeleteMany(query) =>
                /\ res'.err = "none"
                /\ Range(docs') \subseteq Range(docs)
                /\ res'.count = Len(docs) - Len(docs')
                /\ \A d \in Range(docs) \ Range(docs') :
                       /\ query.id # Nil => d._id = ModelId(query.id[1])
                       /\ query.foo # Nil => d.foo = query.foo[1]
                /\ deleteMany(docs', query).res.count = 0
                /\ deleteMany(docs', query).docs = docs']_vars

\* deleteOne has removed one of two documents
C25_Witness ==
    /\ res.op = "deleteOne" /\ res.err = "none"
    /\ Len(docs) = 1 /\ calls = 2

\* C26: find of a raw id goes to the store and returns the model of the
\* document with that _id, or raises NotFoundError when there is none; find
\* of a model object returns that object and does not go to the store,
\* whether a document with its id exists or not.
C26_FindModelOrId ==
    [][res'.op = "find" => \A id \in ModelOrIds :
         Find(id) =>
             /\ docs' = docs
             /\ IF isModelLike(id)
                  THEN res'.err = "none" /\ res'.ret = <<id>> /\ ~res'.store
                  ELSE /\ res'.store
                       /\ IF id.value \in IdsOf(docs)
                            THEN /\ res'.err = "none"
                                 /\ \E i \in 1..Len(docs) :
                                        /\ docs[i]._id = id.value
                                        /\ res'.ret = <<Tests_model(docs[i])>>
                            ELSE res'.err = "NotFoundError" /\ res'.ret = <<>>]_vars

\* find has returned the model the caller held of a document that has been
\* deleted since, without going to the store
C26_Witness ==
    /\ res.op = "find" /\ res.err = "none" /\ ~res.store
    /\ held # <<>> /\ res.ret = held
    /\ held[1].id \notin IdsOf(docs)

\* what updateOne(id, values) is to make of the document d at time `at`
Applied(d, values, at) ==
    [_id |-> d._id, created_at |-> d.created_at, updated_at |-> <<at>>,
     foo |-> IF values.foo = Nil THEN d.foo ELSE values.foo[1],
     bar |-> IF ~values.bar.has THEN d.bar ELSE values.bar.value]

\* the number of documents that differ between a collection and what a call
\* that neither adds nor removes documents made of it
Modified(before, after) == Cardinality({i \in 1..Len(before) : after[i] # before[i]})

Taken(coll, id, values) ==
    /\ values.foo # Nil
    /\ \E i \in 1..Len(coll) : coll[i]._id # ModelId(id) /\ coll[i].foo = values.foo[1]

OffsetOf(pagination) == IF pagination.offset = Nil THEN 0 ELSE pagination.offset[1]
LimitOf(pagination) ==
    IF pagination.limit = Nil \/ pagination.limit[1] > Number(max)
      THEN Number(max) ELSE pagination.limit[1]

\* an offset or a limit that is negative or not an integer
Rejected(x) == x # Nil /\ (x[1] < 0 \/ x[1] % 2 # 0)

\* C28: paginate with a negative or non-integer offset or limit fails on an
\* assertion before the store is queried; otherwise it returns the number
\* of all the documents the query matches as count, and the models of at
\* most min(limit ?? 1000, 1000) of them, those that follow the first
\* offset ?? 0 in the order of the collection.
C28_Paginate ==
    [][res'.op = "paginate" => \A query \in ManyQueries, pagination \in Paginations :
         Paginate(query, pagination) =>
             /\ docs' = docs
             /\ IF Rejected(pagination.offset) \/ Rejected(pagination.limit)
                  THEN res'.err = "AssertionError" /\ ~res'.store
                  ELSE LET all == SelectSeq(docs, LAMBDA d :
                                      query.foo = Nil \/ d.foo = query.foo[1])
                           from == OffsetOf(pagination) \div 2
                       IN  /\ res'.err = "none"
                           /\ res'.count = Len(all)
                           /\ Len(res'.ret) * 2 <= LimitOf(pagination)
                           /\ \A i \in 1..Len(res'.ret) :
                                  res'.ret[i] = Tests_model(all[from + i])]_vars

\* the entries of a map that a step removes
Removed(m, n) == DOMAIN m \ DOMAIN n

\* C31: a refresh is committed in one step: a step that replaces the cache,
\* moves the expiry or removes an entry of #failures or #times is the commit
\* of a sample call whose load has resolved, and it does all of it: the
\* purge of both maps against the cache it finds, the new list, and the
\* expiry of the call's `now`.  Invoking the loader, waiting for it and its
\* rejection write nothing.
C31_AtomicCommit ==
    [][/\ (\/ caches' # caches
           \/ expiresAt' # expiresAt
           \/ Removed(failures, failures') # {}
           \/ Removed(times, times') # {})
          => \E t \in Tasks :
                /\ CommitStep(t)
                /\ caches' \in Loaded
                /\ times' = Purge(times, caches, caches')
                /\ failures' = Purge(failures, caches, caches')
                /\ expiresAt' = Expiry(now[t])
                /\ weights' = weights
       /\ \A t \in Tasks :
            (/\ pc'[t] = "load" \/ (pc[t] = "load" /\ ~CommitStep(t))
             /\ fb'.op = "none"
             /\ \A s \in Tasks \ {t} : pc'[s] = pc[s])
                => UNCHANGED poolVars]_vars

\* a call whose load overlapped another call's has committed an empty list
\* over a cache whose upstream had been returned: the cache is empty, the
\* sample time is purged and the expiry is the one of the call's own `now`,
\* earlier than the clock's
C31_Witness ==
    \E t \in Tasks :
        /\ pc[t] = "synced"
        /\ caches = <<>>
        /\ lastRet.id # 0
        /\ ~Has(times, ToString(lastRet.id))
        /\ expiresAt = Expiry(loads.at)
        /\ loads.st = "ok" /\ ~loads.solo

\* a succeed or fail call that reached the pool and raised nothing
Fed == fb'.op # "none" /\ fb'.err = "none" /\ fb'.via # "other" /\ fb'.pool

\* C32: a succeed or fail call that raises nothing writes #failures and
\* #weights under the key it names and nothing else: the cache, the expiry,
\* every sample time and the entries of both maps under every other key
\* stay as they are, present or not, and no loader is invoked.
C32_FeedbackFrame ==
    [][Fed =>
         /\ UNCHANGED <<caches, expiresAt, times>>
         /\ UNCHANGED <<loads, pc, now>>
         /\ Has(failures', fb'.key)
         /\ \A k \in Keys \ {fb'.key} :
              /\ Get(failures', k, -1) = Get(failures, k, -1)
              /\ Get(weights', k, -1) = Get(weights, k, -1)]_vars

\* succeed has been called for one of two cached upstreams after fail had
\* counted a failure of the other and decayed its weight, which are still
\* there
C32_Witness ==
    /\ fb.op = "succeed" /\ fb.err = "none" /\ fb.via = "pool"
    /\ Len(caches) = 2
    /\ \E k \in CacheKeys(caches) \ {fb.key} :
          /\ Get(failures, k, 0) = 1
          /\ Has(weights, k) /\ weights[k] < StaticWeight(caches, k)
    /\ Get(failures, fb.key, -1) = 0

\* C33: the upstream a sample call selects is an element of the cache as the
\* call's draw finds it, after the call's own #sync; the call keeps it
\* through its wait and returns it, whatever the cache has become.
C33_DrawnFromCache ==
    [][\A t \in Tasks :
         /\ (DrawStep(t) /\ err'[t] = "none")
              => /\ sel'[t] # <<>>
                 /\ sel'[t][1] \in Range(caches)
                 /\ caches' = caches
         /\ (pc[t] = "sleep") => sel'[t] = sel[t]
         /\ ReturnStep(t) => lastRet'.id = sel'[t][1].id]_vars

\* a call has slept and returned an upstream that a refresh, committed by
\* an overlapping call during the sleep, has left out of the cache
C33_Witness ==
    \E t \in Tasks :
        /\ pc[t] = "done" /\ err[t] = "none"
        /\ wake[t] = clock
        /\ lastRet = [id |-> sel[t][1].id, at |-> clock]
        /\ sel[t][1] \notin Range(caches)
        /\ expiresAt > clock

\* a sample call has ended as sample can end once its #sync has returned
Finished(t) == pc[t] = "done" /\ err[t] \in {"none", "NoUpstreamError"}

\* C34: no sample time is later than the clock; a wait that begins is due
\* after more than 0 and no more than interval * 1000 ms; and every sample
\* call whose #sync has returned ends, with an upstream or with
\* NoUpstreamError.
C34_BoundedWait ==
    /\ [](\A k \in DOMAIN times : times[k] <= clock)
    /\ [][\A t \in Tasks :
            (DrawStep(t) /\ pc'[t] = "sleep")
                => /\ wake'[t] > clock
                   /\ wake'[t] - clock <= sel'[t][1].interval]_vars
    /\ \A t \in Tasks : (pc[t] = "synced") ~> Finished(t)

\* a call has waited and returned at the time its wait was due, the other
\* call having returned the same upstream before
C34_Witness ==
    \E t \in Tasks, s \in Tasks :
        /\ s # t
        /\ pc[s] = "done" /\ err[s] = "none" /\ wake[s] = 0
        /\ pc[t] = "done" /\ err[t] = "none"
        /\ sel[t] = sel[s]
        /\ wake[t] = clock
        /\ times[Key(sel[t][1])] = clock

\* C35: no step makes the expiry earlier than it was, whichever of two
\* overlapping refreshes is committed last.
C35_ExpiryMonotone ==
    [][expiresAt' >= expiresAt]_vars

\* C36: a sample time is written by a sample call that returns the
\* upstream, as the clock's time; an entry that is overwritten gets a time
\* no earlier than the one it had; and an entry goes away only in the commit
\* of a refresh whose list does not have the key.
C36_TimesMonotone ==
    [][\A k \in Keys :
         /\ (Has(times, k) /\ Has(times', k)) => times'[k] >= times[k]
         /\ (Has(times, k) /\ ~Has(times', k))
              => \E t \in Tasks : CommitStep(t) /\ k \notin CacheKeys(caches')
         /\ (Has(times', k) /\ Get(times, k, -1) # times'[k])
              => /\ times'[k] = clock
                 /\ \E t \in Tasks : ReturnStep(t) /\ Key(sel'[t][1]) = k]_vars

\* of two calls asleep for the same upstream, one has woken and written a
\* later sample time over the one both waits were computed from, and the
\* other is still to write
C36_Witness ==
    \E t \in Tasks, s \in Tasks :
        /\ s # t
        /\ pc[t] = "done" /\ err[t] = "none"
        /\ pc[s] = "sleep" /\ sel[s] = sel[t] /\ wake[s] = wake[t]
        /\ wake[t] # 0 /\ wake[t] <= clock
        /\ times[Key(sel[t][1])] = clock
        /\ times[Key(sel[t][1])] > wake[s] - sel[s][1].interval

\* what fail would write to #weights in a pool with the other of the two
\* settings minFailures = 0 and minFailures = 1
TwinFailWeights(u) ==
    IF failure(Key(u)) + 1 >= 1 - options.minFailures
      THEN Set(weights, Key(u), Decay(weight(Key(u), u.weight)))
      ELSE weights

\* C37: pools with minFailures = 0 and minFailures = 1 cannot be told
\* apart: both are constructed, and every fail call that raises nothing
\* leaves the #failures and the #weights that it would leave in the pool
\* with the other setting, so that draws and results agree ever after; no
\* other step reads the setting.
C37_ThresholdTwin ==
    [][/\ options.minFailures \in {0, 1} /\ Valid(options)
       /\ (fb'.op = "fail" /\ Fed) =>
            \A arg \in FeedbackArgs :
                (Fail(arg) \/ UpstreamPoolFail("main", arg)) =>
                    LET u == Resolve(arg)[1]
                    IN  /\ failures' = FailFailures(u)
                        /\ weights' = TwinFailWeights(u)
                        /\ weights' # weights]_vars

\* in a pool with minFailures = 1 the first fail call about a cached
\* upstream has counted one failure and decayed the weight
C37_Witness ==
    /\ options.minFailures = 1
    /\ fb.op = "fail" /\ fb.err = "none" /\ fb.known
    /\ fb.was.failure \in {-1, 0}
    /\ failures[fb.key] = 1
    /\ weights[fb.key] = Decay(StaticWeight(caches, fb.key))

\* C38: when the effective weights of the candidates sum to more than 0, a
\* call selects a candidate of effective weight 0 only when that candidate
\* is the first in cache order and the random value is 0.
C38_ZeroWeightSelected ==
    [][\A t \in Tasks : DrawStep(t) => \A h \in Hinted, r \in 0..MaxSum :
         LET c == Candidates(caches, h)
         IN  (/\ Draw(t, h, r)
              /\ Len(c) > 0
              /\ PrefixSum(c, Len(c)) > 0)
             => /\ err'[t] = "none"
                /\ \A i \in 1..Len(c) :
                     (sel'[t] = <<c[i]>> /\ Effective(c, i) = 0)
                         => (i = 1 /\ r = 0)]_vars

\* a call has selected the first of two cached upstreams, whose effective
\* weight is 0 while the other's is not
C38_Witness ==
    \E t \in Tasks :
        /\ pc[t] \in {"sleep", "done"} /\ err[t] = "none"
        /\ hint[t] = NoHint
        /\ Len(caches) = 2
        /\ Effective(caches, 1) = 0
        /\ Effective(caches, 2) > 0
        /\ sel[t] = <<caches[1]>>


====
